---- MODULE Spec2Model ----
(***************************************************************************)
(* A model of the visual-similarity retrieval engine of                    *)
(* shopline-img-train.  It models src/src/database/vector_db.py: the       *)
(* VectorDatabase object (a FAISS index plus a parallel metadata list and  *)
(* its configuration), its operations, and the two companion files it      *)
(* persists itself to; the three scripts that build such a database from   *)
(* SKU images (scripts/build_robust_vector_db*.py, with the encoder of     *)
(* src/src/models/clip_encoder.py); the detector of                       *)
(* src/src/models/grounding_dino.py; the recognition pipeline of           *)
(* src/src/pipeline/inference.py and the HTTP server in front of it        *)
(* (src/src/api/api_server.py); the two image augmenters                   *)
(* (src/src/utils/augmentation.py, src/image_augmentation.py); and the     *)
(* MySQL client of src/src/api/mysql_client.py.                            *)
(*                                                                         *)
(* Numbers.  Embeddings are float32 vectors; the model keeps them as       *)
(* fixed-point integer vectors in which the component c stands for the     *)
(* real c / Unit.  Squared distances and inner products therefore come in  *)
(* units of 1 / (Unit * Unit), and a similarity score is kept as an exact  *)
(* fraction [num, den].                                                    *)
(***************************************************************************)
EXTENDS Integers, Sequences, FiniteSets, TLC

VARIABLES
    db,         \* the VectorDatabase object (self)
    indexFile,  \* the file at index_path
    metaFile,   \* the file at metadata_path
    savePc,     \* position of a running save(): "idle" when none runs
    call,       \* the last call made on the object, with its arguments
    err,        \* the exception that call raised, "none" if it returned
    ret,        \* what that call returned
    saved,      \* history: the object state the two files hold, while intact
    prev,       \* history: `saved` as it was when the running/last save began
    nInserted,  \* history: embeddings inserted since construction, -1 after a load
    build,      \* a run of one of the build scripts
    detector,   \* the GroundingDINODetector object and its last detect call
    pipeline,   \* the SKURecognitionPipeline object and its last call
    server,     \* the API server: its APIState and the last request
    augmenter,  \* the last call made on an ImageAugmenter
    client      \* the MySQLClient object, its database, and its last call

vars == <<db, indexFile, metaFile, savePc, call, err, ret, saved, prev, nInserted,
          build, detector, pipeline, server, augmenter, client>>

\* what the calls on a VectorDatabase leave alone
restVars == <<build, detector, pipeline, server, augmenter, client>>

----------------------------------------------------------------------------
(* Bounds of the model *)

\* most vectors an index holds
MaxTotal == 2

\* most vectors the index holds in the runs that add a batch again
MaxTrainTotal == 6

----------------------------------------------------------------------------
(* Arithmetic on fixed-point vectors *)

\* the fixed-point scale of a vector component (np.float32 values)
Unit == 5

\* the real number 1.0 in the unit of squared distances and inner products
One == Unit * Unit

\* FLT_MAX, the distance FAISS reports for a rank it has no hit for
FltMax == 10000

Min(a, b) == IF a < b THEN a ELSE b

RECURSIVE Dot(_, _)
Dot(a, b) ==
    IF a = <<>> \/ b = <<>> THEN 0
    ELSE Head(a) * Head(b) + Dot(Tail(a), Tail(b))

Diff(a, b) == [i \in DOMAIN a |-> a[i] - b[i]]

\* squared Euclidean distance, which is what FAISS calls the L2 distance
L2sqr(a, b) == Dot(Diff(a, b), Diff(a, b))

\* Euclidean norm of a vector (every vector of the model has an integer norm)
Norm(v) == CHOOSE n \in 0..(4 * Unit) : n * n = Dot(v, v)

\* faiss.normalize_L2 on one row: scale to norm 1.0, a zero row is left alone
NormalizeRow(v) ==
    IF Norm(v) = 0 THEN v
    ELSE [j \in DOMAIN v |-> (v[j] * Unit) \div Norm(v)]

normalize_L2(x) == [i \in DOMAIN x |-> NormalizeRow(x[i])]

\* fractions: a score is num / den with den > 0
Frac(n, d) == [num |-> n, den |-> d]
FracEq(a, b) == a.num * b.den = b.num * a.den
FracGeq(a, b) == a.num * b.den >= b.num * a.den

----------------------------------------------------------------------------
(* The FAISS library: index objects *)

\* "L2" in index_type / "IP" in index_type: Python's substring test, over the
\* index type names the program knows
InName(sub, index_type) ==
    \/ sub = "L2" /\ index_type = "IndexFlatL2"
    \/ sub = "IP" /\ index_type = "IndexFlatIP"

SupportedTypes == {"IndexFlatL2", "IndexFlatIP", "IndexIVFFlat", "IndexHNSWFlat"}

\* a faiss.Index object; xb are the stored vectors by id (ids start at 0, so
\* id i is xb[i+1]); for an IVF index centroids are the trained cluster
\* centres and assign[i+1] is the inverted list that holds id i
FaissIndex(cls, d, metric_type, is_trained, nlist, nprobe) ==
    [cls |-> cls, d |-> d, metric_type |-> metric_type, is_trained |-> is_trained,
     xb |-> <<>>, nlist |-> nlist, nprobe |-> nprobe,
     centroids |-> <<>>, assign |-> <<>>]

ntotal(index) == Len(index.xb)

create_index(dimension, index_type, nlist) ==
    IF index_type = "IndexFlatL2" THEN
        FaissIndex("IndexFlatL2", dimension, "L2", TRUE, 0, 0)
    ELSE IF index_type = "IndexFlatIP" THEN
        FaissIndex("IndexFlatIP", dimension, "IP", TRUE, 0, 0)
    ELSE IF index_type = "IndexIVFFlat" THEN
        FaissIndex("IndexIVFFlat", dimension, "L2", FALSE, nlist, 1)
    ELSE
        FaissIndex("IndexHNSWFlat", dimension, "L2", TRUE, 0, 0)

\* the key a hit is ranked by, smaller is better
RankKey(index, q, i) ==
    IF index.metric_type = "L2" THEN L2sqr(q, index.xb[i + 1])
    ELSE 0 - Dot(q, index.xb[i + 1])

\* the value FAISS reports for a hit: the L2 distance or the inner product
Reported(index, q, i) ==
    IF index.metric_type = "L2" THEN L2sqr(q, index.xb[i + 1])
    ELSE Dot(q, index.xb[i + 1])

\* the best of a non-empty set of candidate ids: least key, then least id
Best(index, q, cands) ==
    CHOOSE i \in cands : \A j \in cands :
        \/ RankKey(index, q, i) < RankKey(index, q, j)
        \/ RankKey(index, q, i) = RankKey(index, q, j) /\ i <= j

RECURSIVE TopK(_, _, _, _)
TopK(index, q, cands, k) ==
    IF k = 0 \/ cands = {} THEN <<>>
    ELSE LET b == Best(index, q, cands)
         IN  <<b>> \o TopK(index, q, cands \ {b}, k - 1)

\* the quantizer's answer: the centre nearest to v (the first one on a tie)
NearestCentroid(centroids, v) ==
    CHOOSE c \in DOMAIN centroids : \A e \in DOMAIN centroids :
        \/ L2sqr(v, centroids[c]) < L2sqr(v, centroids[e])
        \/ L2sqr(v, centroids[c]) = L2sqr(v, centroids[e]) /\ c <= e

\* the ids a search of q looks at: all of them in a flat index and in an HNSW
\* graph of at most M = 32 nodes (every node is linked to every other); in an
\* IVF index the ids of the nprobe = 1 inverted list nearest to q
Candidates(index, q) ==
    IF index.cls = "IndexIVFFlat" THEN
        {i \in 0..(ntotal(index) - 1) :
            index.assign[i + 1] = NearestCentroid(index.centroids, q)}
    ELSE 0..(ntotal(index) - 1)

\* index.search(q, k) for one query row: labels I and values D, k of each;
\* ranks without a hit carry the label -1 and the value +-FLT_MAX
index_search(index, q, k) ==
    LET hits == TopK(index, q, Candidates(index, q), k)
        nohit == IF index.metric_type = "L2" THEN FltMax ELSE 0 - FltMax
    IN  [I |-> [r \in 1..k |-> IF r <= Len(hits) THEN hits[r] ELSE -1],
         D |-> [r \in 1..k |->
                  IF r <= Len(hits) THEN Reported(index, q, hits[r]) ELSE nohit]]

\* index.train(x): only an IVF index learns anything, its nlist centres; the
\* clustering needs at least nlist points and raises otherwise.
CanTrain(index, x) == Len(x) >= index.nlist

\* The outcomes of clustering n points into nlist centres, each as the
\* positions of the points that become the centres.  With n = nlist FAISS
\* copies the points, in order.  With more points it runs k-means from a
\* (seeded) random draw of nlist of them; the model keeps the draw and leaves
\* the refinement of the centres out, so every draw is an outcome.  With
\* fewer points there is no clustering (the empty outcome stands for none).
Clusterings(n, nlist) ==
    IF n < nlist THEN {<<>>}
    ELSE IF n = nlist THEN {[c \in 1..nlist |-> c]}
    ELSE {p \in [1..nlist -> 1..n] : \A a, b \in 1..nlist : p[a] = p[b] => a = b}

index_train(index, x, pick) ==
    IF index.cls = "IndexIVFFlat"
    THEN [index EXCEPT !.centroids = [c \in 1..index.nlist |-> x[pick[c]]],
                       !.is_trained = TRUE]
    ELSE index

\* index.add(x): append the rows, in order, under the next ids
index_add(index, x) ==
    IF index.cls = "IndexIVFFlat" THEN
        [index EXCEPT
            !.xb = @ \o x,
            !.assign = @ \o [i \in DOMAIN x |-> NearestCentroid(index.centroids, x[i])]]
    ELSE [index EXCEPT !.xb = @ \o x]

----------------------------------------------------------------------------
(* The FAISS library: index files *)

\* the four-character type tag write_index puts at the head of the file
Fourcc(cls) ==
    IF cls = "IndexFlatL2" THEN "IxF2"
    ELSE IF cls = "IndexFlatIP" THEN "IxFI"
    ELSE IF cls = "IndexIVFFlat" THEN "IwFl"
    ELSE "IHNf"

ClassOf(fourcc) ==
    IF fourcc = "IxF2" THEN "IndexFlatL2"
    ELSE IF fourcc = "IxFI" THEN "IndexFlatIP"
    ELSE IF fourcc = "IwFl" THEN "IndexIVFFlat"
    ELSE "IndexHNSWFlat"

\* faiss.MetricType: METRIC_INNER_PRODUCT = 0, METRIC_L2 = 1
MetricCode(metric_type) == IF metric_type = "IP" THEN 0 ELSE 1

\* the ids of inverted list l, in the order they were added
RECURSIVE ListIds(_, _, _)
ListIds(assign, l, i) ==
    IF i > Len(assign) THEN <<>>
    ELSE (IF assign[i] = l THEN <<i - 1>> ELSE <<>>) \o ListIds(assign, l, i + 1)

\* faiss.write_index: the bytes of the file, as the fields it writes
write_index(index) ==
    [fourcc |-> Fourcc(index.cls),
     d |-> index.d,
     ntotal |-> ntotal(index),
     is_trained |-> index.is_trained,
     metric_type |-> MetricCode(index.metric_type),
     codes |-> index.xb,
     nlist |-> index.nlist,
     nprobe |-> index.nprobe,
     quantizer |-> index.centroids,
     invlists |-> [l \in 1..index.nlist |-> ListIds(index.assign, l, 1)]]

\* faiss.read_index: the index object a complete file describes
read_index(data) ==
    [cls |-> ClassOf(data.fourcc),
     d |-> data.d,
     metric_type |-> IF data.metric_type = 0 THEN "IP" ELSE "L2",
     is_trained |-> data.is_trained,
     xb |-> [i \in 1..data.ntotal |-> data.codes[i]],
     nlist |-> data.nlist,
     nprobe |-> data.nprobe,
     centroids |-> data.quantizer,
     assign |-> IF data.fourcc # "IwFl" THEN <<>>
                ELSE [i \in 1..data.ntotal |->
                        CHOOSE l \in 1..data.nlist :
                            \E p \in DOMAIN data.invlists[l] :
                                data.invlists[l][p] = i - 1]]

\* a file on disk: missing, partial (opened for writing and not yet complete:
\* empty or truncated), or complete with its content
NoData == <<>>
MissingFile == [state |-> "missing", data |-> NoData]
PartialFile == [state |-> "partial", data |-> NoData]
CompleteFile(data) == [state |-> "complete", data |-> data]

FileEq(f, g) ==
    /\ f.state = g.state
    /\ f.state = "complete" => f.data = g.data

----------------------------------------------------------------------------
(* VectorDatabase *)

\* the default of the nlist parameter, and of data.get('nlist', ...)
DefaultNlist == 100

\* __init__: the object after construction with a supported index type
VectorDatabase(cfg) ==
    [dimension |-> cfg.dimension,
     index_type |-> cfg.index_type,
     metric |-> cfg.metric,
     nlist |-> cfg.nlist,
     index |-> create_index(cfg.dimension, cfg.index_type, cfg.nlist),
     metadata |-> <<>>]

\* "if self.metric == 'IP' or 'IP' in self.index_type"
UsesCosine(self) == self.metric = "IP" \/ InName("IP", self.index_type)

\* the shape assertion of the FAISS Python wrapper: every row has d columns
WrongDim(index, x) == \E i \in DOMAIN x : Len(x[i]) # index.d

Outcome(self, e) == [self |-> self, err |-> e]

\* the training step with its guard taken away: the index is trained on
\* every batch
train_always(self, x, pick) == index_train(self.index, x, pick)

\* "Train index if needed": the index after the training step of
\* add_embeddings on the batch x, which trains an IVF index that is not yet
\* trained and leaves every other index as it is
train_if_needed(self, x, pick) ==
    IF self.index_type = "IndexIVFFlat" /\ ~self.index.is_trained
    THEN index_train(self.index, x, pick)
    ELSE self.index

\* add_embeddings without its length check (line 87)
add_embeddings_unchecked(self, embeddings, metadata, pick) ==
    LET x == IF UsesCosine(self) THEN normalize_L2(embeddings) ELSE embeddings
        needsTraining == self.index_type = "IndexIVFFlat" /\ ~self.index.is_trained
    IN  IF WrongDim(self.index, x) THEN Outcome(self, "AssertionError")
        ELSE IF needsTraining /\ ~CanTrain(self.index, x)
        THEN Outcome(self, "RuntimeError")
        ELSE IF ~needsTraining /\ ~self.index.is_trained
        THEN Outcome(self, "RuntimeError")
        ELSE
        LET trained == train_if_needed(self, x, pick)
        IN  Outcome([self EXCEPT !.index = index_add(trained, x),
                                 !.metadata = @ \o metadata],
                    "none")

\* add_embeddings without its training step (lines 98-100): index.add on an
\* index that is not trained raises and adds nothing
add_embeddings_untrained(self, embeddings, metadata, pick) ==
    IF Len(embeddings) # Len(metadata) THEN Outcome(self, "ValueError")
    ELSE
    LET x == IF UsesCosine(self) THEN normalize_L2(embeddings) ELSE embeddings
    IN  IF WrongDim(self.index, x) THEN Outcome(self, "AssertionError")
        ELSE IF ~self.index.is_trained THEN Outcome(self, "RuntimeError")
        ELSE Outcome([self EXCEPT !.index = index_add(self.index, x),
                                  !.metadata = @ \o metadata],
                     "none")

\* add_embeddings(embeddings, metadata): the object afterwards and the
\* exception raised ("none" when the call returns).  pick is what the
\* clustering of the batch yields, should the index train on it.
add_embeddings(self, embeddings, metadata, pick) ==
    IF Len(embeddings) # Len(metadata) THEN Outcome(self, "ValueError")
    ELSE
    LET x == IF UsesCosine(self) THEN normalize_L2(embeddings) ELSE embeddings
        needsTraining == self.index_type = "IndexIVFFlat" /\ ~self.index.is_trained
    IN  IF WrongDim(self.index, x) THEN Outcome(self, "AssertionError")
        ELSE IF needsTraining /\ ~CanTrain(self.index, x)
        THEN Outcome(self, "RuntimeError")
        ELSE IF ~needsTraining /\ ~self.index.is_trained
        THEN Outcome(self, "RuntimeError")
        ELSE
        LET trained == train_if_needed(self, x, pick)
        IN  Outcome([self EXCEPT !.index = index_add(trained, x),
                                 !.metadata = @ \o metadata],
                    "none")

\* the metadata of the labels that are positions of the metadata list
RECURSIVE Lookup(_, _)
Lookup(metadata, I) ==
    IF I = <<>> THEN <<>>
    ELSE (IF Head(I) >= 0 /\ Head(I) < Len(metadata)
          THEN <<metadata[Head(I) + 1]>> ELSE <<>>)
         \o Lookup(metadata, Tail(I))

\* the score made of one reported value
Similarity(self, dist) ==
    IF InName("L2", self.index_type) THEN Frac(One, One + dist)
    ELSE Frac(dist, One)

\* the query row handed to index.search: float32, normalized for cosine
PrepareQuery(self, query_embedding) ==
    IF UsesCosine(self) THEN NormalizeRow(query_embedding) ELSE query_embedding

SearchResult(e, results, similarities, none) ==
    [err |-> e, results |-> results, similarities |-> similarities, none |-> none]

\* search(query_embedding, k, return_distances = True); none tells that the
\* second component of the returned pair is None
search(self, query_embedding, k) ==
    IF ntotal(self.index) = 0 THEN SearchResult("none", <<>>, <<>>, TRUE)
    ELSE
    LET q == PrepareQuery(self, query_embedding)
        kk == Min(k, ntotal(self.index))
    IN  IF Len(q) # self.index.d
        THEN SearchResult("AssertionError", <<>>, <<>>, TRUE)
        ELSE
        LET found == index_search(self.index, q, kk)
        IN  SearchResult("none",
                         Lookup(self.metadata, found.I),
                         [r \in 1..kk |-> Similarity(self, found.D[r])],
                         FALSE)

\* search_batch(query_embeddings, k): one row of results and of scores a query
search_batch(self, query_embeddings, k) ==
    IF ntotal(self.index) = 0
    THEN [err |-> "none",
          all_results |-> [i \in DOMAIN query_embeddings |-> <<>>],
          similarities |-> <<>>]
    ELSE
    LET qs == [i \in DOMAIN query_embeddings |->
                 PrepareQuery(self, query_embeddings[i])]
        kk == Min(k, ntotal(self.index))
        found == [i \in DOMAIN qs |-> index_search(self.index, qs[i], kk)]
    IN  IF WrongDim(self.index, qs)
        THEN [err |-> "AssertionError", all_results |-> <<>>, similarities |-> <<>>]
        ELSE [err |-> "none",
              all_results |-> [i \in DOMAIN qs |-> Lookup(self.metadata, found[i].I)],
              similarities |-> [i \in DOMAIN qs |->
                                  [r \in 1..kk |-> Similarity(self, found[i].D[r])]]]

get_stats(self) ==
    [total_embeddings |-> ntotal(self.index),
     dimension |-> self.dimension,
     index_type |-> self.index_type,
     metric |-> self.metric,
     metadata_count |-> Len(self.metadata)]

\* what save pickles into the metadata file
pickle_dump(self) ==
    [metadata |-> self.metadata,
     dimension |-> self.dimension,
     index_type |-> self.index_type,
     metric |-> self.metric,
     nlist |-> self.nlist]

\* load without the assignment of index_type (line 252)
load_keeps_index_type(self, idxFile, mdFile) ==
    IF idxFile.state # "complete" THEN Outcome(self, "RuntimeError")
    ELSE
    LET withIndex == [self EXCEPT !.index = read_index(idxFile.data)]
    IN  IF mdFile.state = "missing" THEN Outcome(withIndex, "FileNotFoundError")
        ELSE IF mdFile.state = "partial" THEN Outcome(withIndex, "EOFError")
        ELSE Outcome([withIndex EXCEPT
                         !.metadata = mdFile.data.metadata,
                         !.dimension = mdFile.data.dimension,
                         !.metric = mdFile.data.metric,
                         !.nlist = mdFile.data.nlist],
                     "none")

\* load(index_path, metadata_path): the index is read and assigned first, the
\* metadata file is opened and unpickled after it
load(self, idxFile, mdFile) ==
    IF idxFile.state # "complete" THEN Outcome(self, "RuntimeError")
    ELSE
    LET withIndex == [self EXCEPT !.index = read_index(idxFile.data)]
    IN  IF mdFile.state = "missing" THEN Outcome(withIndex, "FileNotFoundError")
        ELSE IF mdFile.state = "partial" THEN Outcome(withIndex, "EOFError")
        ELSE Outcome([withIndex EXCEPT
                         !.metadata = mdFile.data.metadata,
                         !.dimension = mdFile.data.dimension,
                         !.index_type = mdFile.data.index_type,
                         !.metric = mdFile.data.metric,
                         !.nlist = mdFile.data.nlist],
                     "none")

----------------------------------------------------------------------------
(* Inputs *)

\* the configurations an object is constructed with
Configs ==
    {[dimension |-> 2, index_type |-> "IndexFlatL2", metric |-> "L2", nlist |-> DefaultNlist],
     [dimension |-> 2, index_type |-> "IndexFlatIP", metric |-> "IP", nlist |-> DefaultNlist],
     [dimension |-> 2, index_type |-> "IndexIVFFlat", metric |-> "L2", nlist |-> 2],
     [dimension |-> 2, index_type |-> "IndexHNSWFlat", metric |-> "L2", nlist |-> DefaultNlist],
     [dimension |-> 2, index_type |-> "IndexLSH", metric |-> "L2", nlist |-> DefaultNlist]}

Supported == {c \in Configs : c.index_type \in SupportedTypes}

\* the (embeddings, metadata) arguments of add_embeddings: well-formed batches
\* of none, one, two and three rows, three of mismatched lengths, one of a
\* wrong dimension
AddInputs ==
    {[embeddings |-> <<>>, metadata |-> <<>>],
     [embeddings |-> << <<6, 8>> >>, metadata |-> <<"skuA">>],
     [embeddings |-> << <<3, 4>>, <<0, 5>> >>, metadata |-> <<"skuB", "skuC">>],
     [embeddings |-> << <<6, 8>>, <<3, 4>>, <<0, 5>> >>,
      metadata |-> <<"skuA", "skuB", "skuC">>],
     [embeddings |-> << <<3, 4>>, <<0, 5>> >>, metadata |-> <<"skuB">>],
     [embeddings |-> << <<6, 8>> >>, metadata |-> <<"skuA", "skuB">>],
     [embeddings |-> << <<6, 8>> >>, metadata |-> <<>>],
     [embeddings |-> << <<5>> >>, metadata |-> <<"skuA">>]}

\* query vectors
Queries == {<<5, 0>>, <<0, 10>>}

QueryBatches == {<< <<5, 0>>, <<0, 10>> >>}

\* the narrower inputs of the runs in which a save can be cut short
CrashConfigs == {c \in Supported : c.index_type \in {"IndexFlatL2", "IndexFlatIP"}}

CrashInputs ==
    {inp \in AddInputs :
        /\ inp.embeddings = << <<6, 8>> >>
        /\ Len(inp.metadata) <= 1}

CrashQueries == {<<5, 0>>}

\* the k of a search: fewer than, as many as and more than an index holds
Ks == {1, 2, 10}

\* the k of the searches in the runs in which a save can be cut short
CrashK == 10

\* the inputs of the runs that add a batch again to a clustered index: two
\* centres, and batches of as many rows and of more
TrainConfigs == {c \in Supported : c.index_type = "IndexIVFFlat"}

TrainInputs == {inp \in AddInputs : Len(inp.embeddings) = Len(inp.metadata)
                                      /\ Len(inp.embeddings) >= 2}

----------------------------------------------------------------------------
(* The state machine: one object, the two files, and the calls made on it *)

\* no build script runs, and no detector has been made
NoBuild == [pc |-> "none"]
NoDetector == [pc |-> "none"]

\* no pipeline is made, no server runs, no augmenter or client is called
NoPipeline == [pc |-> "none"]
NoServer == [pc |-> "none"]
NoAugmenter == [pc |-> "none"]
NoClient == [pc |-> "none"]

NoRet == [kind |-> "none"]
NoSaved == [valid |-> FALSE]
Saved(self) == [valid |-> TRUE, db |-> self]

Init ==
    /\ \E cfg \in CrashConfigs :
        /\ db = VectorDatabase(cfg)
        /\ call = [op |-> "__init__", cfg |-> cfg]
    /\ indexFile = MissingFile
    /\ metaFile = MissingFile
    /\ savePc = "idle"
    /\ err = "none"
    /\ ret = NoRet
    /\ saved = NoSaved
    /\ prev = NoSaved
    /\ nInserted = 0
    /\ build = NoBuild
    /\ detector = NoDetector
    /\ pipeline = NoPipeline
    /\ server = NoServer
    /\ augmenter = NoAugmenter
    /\ client = NoClient

\* VectorDatabase(...): a new object takes the place of the old one; an
\* unsupported index type raises and no object is made
Construct(cfg) ==
    /\ savePc = "idle"
    /\ call' = [op |-> "__init__", cfg |-> cfg]
    /\ ret' = NoRet
    /\ prev' = NoSaved
    /\ IF cfg.index_type \in SupportedTypes
       THEN /\ db' = VectorDatabase(cfg)
            /\ err' = "none"
            /\ nInserted' = 0
       ELSE /\ err' = "ValueError"
            /\ UNCHANGED <<db, nInserted>>
    /\ UNCHANGED <<indexFile, metaFile, savePc, saved>>
    /\ UNCHANGED restVars

\* add_embeddings(inp.embeddings, inp.metadata), with any outcome of the
\* clustering it may run, on an object that holds no more than cap entries
\* afterwards
AddEmbeddingsWithin(inp, cap) ==
    /\ savePc = "idle"
    /\ ntotal(db.index) + Len(inp.embeddings) <= cap
    /\ Len(db.metadata) + Len(inp.metadata) <= cap
    /\ \E pick \in Clusterings(Len(inp.embeddings), db.index.nlist) :
          LET out == add_embeddings(db, inp.embeddings, inp.metadata, pick)
          IN  /\ db' = out.self
              /\ err' = out.err
              /\ nInserted' = IF out.err = "none" /\ nInserted >= 0
                              THEN nInserted + Len(inp.embeddings)
                              ELSE nInserted
    /\ call' = [op |-> "add_embeddings", embeddings |-> inp.embeddings,
                metadata |-> inp.metadata]
    /\ ret' = NoRet
    /\ prev' = NoSaved
    /\ UNCHANGED <<indexFile, metaFile, savePc, saved>>
    /\ UNCHANGED restVars

AddEmbeddings(inp) == AddEmbeddingsWithin(inp, MaxTotal)

Search(q, k) ==
    /\ savePc = "idle"
    /\ call' = [op |-> "search", query |-> q, k |-> k]
    /\ LET r == search(db, q, k)
       IN  ret' = r /\ err' = r.err
    /\ prev' = NoSaved
    /\ UNCHANGED <<db, indexFile, metaFile, savePc, saved, nInserted>>
    /\ UNCHANGED restVars

SearchBatch(qs, k) ==
    /\ savePc = "idle"
    /\ call' = [op |-> "search_batch", queries |-> qs, k |-> k]
    /\ LET r == search_batch(db, qs, k)
       IN  ret' = r /\ err' = r.err
    /\ prev' = NoSaved
    /\ UNCHANGED <<db, indexFile, metaFile, savePc, saved, nInserted>>
    /\ UNCHANGED restVars

GetStats ==
    /\ savePc = "idle"
    /\ call' = [op |-> "get_stats"]
    /\ ret' = get_stats(db)
    /\ err' = "none"
    /\ prev' = NoSaved
    /\ UNCHANGED <<db, indexFile, metaFile, savePc, saved, nInserted>>
    /\ UNCHANGED restVars

\* save, step 1: faiss.write_index opens the index file for writing
SaveOpenIndex ==
    /\ savePc = "idle"
    /\ savePc' = "index_open"
    /\ indexFile' = PartialFile
    /\ call' = [op |-> "save"]
    /\ err' = "none"
    /\ ret' = NoRet
    /\ prev' = saved
    /\ saved' = NoSaved
    /\ UNCHANGED <<db, metaFile, nInserted>>
    /\ UNCHANGED restVars

\* save, step 2: the index is written out and the file closed
SaveWriteIndex ==
    /\ savePc = "index_open"
    /\ savePc' = "index_written"
    /\ indexFile' = CompleteFile(write_index(db.index))
    /\ UNCHANGED <<db, metaFile, call, err, ret, saved, prev, nInserted>>
    /\ UNCHANGED restVars

\* save, step 3: open(metadata_path, 'wb')
SaveOpenMeta ==
    /\ savePc = "index_written"
    /\ savePc' = "meta_open"
    /\ metaFile' = PartialFile
    /\ UNCHANGED <<db, indexFile, call, err, ret, saved, prev, nInserted>>
    /\ UNCHANGED restVars

\* save, step 4: pickle.dump, the file is closed and save returns
SaveDumpMeta ==
    /\ savePc = "meta_open"
    /\ savePc' = "idle"
    /\ metaFile' = CompleteFile(pickle_dump(db))
    /\ saved' = Saved(db)
    /\ UNCHANGED <<db, indexFile, call, err, ret, prev, nInserted>>
    /\ UNCHANGED restVars

\* a running save ends where it stands: an I/O error, an interrupt, or the
\* death of the process
SaveInterrupt ==
    /\ savePc # "idle"
    /\ savePc' = "idle"
    /\ err' = "Interrupted"
    /\ UNCHANGED <<db, indexFile, metaFile, call, ret, saved, prev, nInserted>>
    /\ UNCHANGED restVars

\* save, all four steps, when nothing cuts it short
Save ==
    /\ savePc = "idle"
    /\ indexFile' = CompleteFile(write_index(db.index))
    /\ metaFile' = CompleteFile(pickle_dump(db))
    /\ call' = [op |-> "save"]
    /\ err' = "none"
    /\ ret' = NoRet
    /\ prev' = saved
    /\ saved' = Saved(db)
    /\ UNCHANGED <<db, savePc, nInserted>>
    /\ UNCHANGED restVars

Load ==
    /\ savePc = "idle"
    /\ LET out == load(db, indexFile, metaFile)
       IN  /\ db' = out.self
           /\ err' = out.err
    /\ nInserted' = IF indexFile.state = "complete" THEN -1 ELSE nInserted
    /\ call' = [op |-> "load", self |-> db]
    /\ ret' = NoRet
    /\ prev' = NoSaved
    /\ UNCHANGED <<indexFile, metaFile, savePc, saved>>
    /\ UNCHANGED restVars

\* the calls on the object, every save running to its end
Next ==
    \/ \E cfg \in Configs : Construct(cfg)
    \/ \E inp \in AddInputs : AddEmbeddings(inp)
    \/ \E q \in Queries, k \in Ks : Search(q, k)
    \/ \E qs \in QueryBatches, k \in Ks : SearchBatch(qs, k)
    \/ GetStats
    \/ Save
    \/ Load

Spec == Init /\ [][Next]_vars

\* the calls on the object, a save going step by step and ending at any of them
NextCrash ==
    \/ \E cfg \in CrashConfigs : Construct(cfg)
    \/ \E inp \in CrashInputs : AddEmbeddings(inp)
    \/ \E q \in CrashQueries : Search(q, CrashK)
    \/ \E qs \in QueryBatches : SearchBatch(qs, CrashK)
    \/ GetStats
    \/ SaveOpenIndex
    \/ SaveWriteIndex
    \/ SaveOpenMeta
    \/ SaveDumpMeta
    \/ SaveInterrupt
    \/ Load

SpecCrash == Init /\ [][NextCrash]_vars

\* the calls on a clustered index that is given the same batches repeatedly
NextTrain ==
    \/ \E cfg \in TrainConfigs : Construct(cfg)
    \/ \E inp \in TrainInputs : AddEmbeddingsWithin(inp, MaxTrainTotal)
    \/ \E q \in Queries, k \in Ks : Search(q, k)
    \/ GetStats

SpecTrain == Init /\ [][NextTrain]_vars

----------------------------------------------------------------------------
(* The build scripts: scripts/build_robust_vector_db.py (monolithic),      *)
(* ..._streaming.py and ..._parallel.py.  A source is a SKU record with an *)
(* image file; sources are numbered 1..n in the order of valid_skus.       *)
(* Metadata records are Python dicts, which a list holds by reference: the *)
(* model keeps them in a heap (a sequence of records) and the lists hold   *)
(* positions of the heap.                                                  *)

\* most sources of a build, and most augmented versions per image
MaxSources == 2
MaxAug == 2

\* the kinds of augmentation: "aug_type = aug_idx % 5"
NumAugTypes == 5

\* the chunksize of pool.imap_unordered: tasks go to a worker, and their
\* results come back, in batches of this many
PoolChunksize == 10

\* the sku_info of source i, as json.load made it
SkuInfo(i) == [sku |-> i]

\* an image: the one loaded from the file of source src (variant 0), its
\* augmented version of aug_idx = variant - 1, or the blank 224x224 image
\* that stands in for a file that could not be opened
Image(src, variant) == [src |-> src, variant |-> variant, blank |-> FALSE]
BlankImage(src) == [src |-> src, variant |-> 0, blank |-> TRUE]

\* the CLIP encoder, a function of the image: a unit vector per source, and
\* one for the blank image
Embedding(img) ==
    IF img.blank THEN <<Unit, 0>>
    ELSE IF img.src % 3 = 1 THEN <<3, 4>>
    ELSE IF img.src % 3 = 2 THEN <<4, 3>>
    ELSE <<0, Unit>>

\* what can go wrong with one source: its image file cannot be opened
\* ("load"), apply_light_augmentation raises on the version aug_idx = at
\* ("augment"), or the encoder raises on its images ("encode")
NoFailure == [kind |-> "none", at |-> 0]

FailureKinds(augment_per_image) ==
    {NoFailure, [kind |-> "load", at |-> 0], [kind |-> "encode", at |-> 0]}
    \cup {[kind |-> "augment", at |-> j] : j \in 0..(augment_per_image - 1)}

\* sku_info.copy() that makes no copy: the same dict under another name
dict_copy_alias(heap, ref) == [heap |-> heap, ref |-> ref]

\* sku_info.copy(): a new dict with the same items
dict_copy(heap, ref) == [heap |-> Append(heap, heap[ref]), ref |-> Len(heap) + 1]

\* d[key] = value on the dict at ref
setitem(heap, ref, key, value) == [heap EXCEPT ![ref] = (key :> value) @@ @]

\* the records a list of references stands for
Deref(heap, refs) == [i \in DOMAIN refs |-> heap[refs[i]]]

\* the loop over the augmented versions that stops one version early
RECURSIVE augment_loop_short(_, _, _, _, _, _)
augment_loop_short(acc, ref, src, aug_idx, augment_per_image, fail) ==
    IF aug_idx + 1 >= augment_per_image THEN acc
    ELSE IF fail.kind = "augment" /\ fail.at = aug_idx THEN acc
    ELSE
    LET c == dict_copy(acc.heap, ref)
        tagged == setitem(setitem(setitem(c.heap, c.ref, "augmented", TRUE),
                                  c.ref, "aug_index", aug_idx + 1),
                          c.ref, "aug_type", aug_idx % NumAugTypes)
    IN  augment_loop_short([heap |-> tagged,
                            images |-> Append(acc.images, Image(src, aug_idx + 1)),
                            metadata |-> Append(acc.metadata, c.ref)],
                           ref, src, aug_idx + 1, augment_per_image, fail)

\* "for aug_idx in range(augment_per_image)", from aug_idx on: each version is
\* made, appended, and its metadata is a tagged copy of sku_info (the dict at
\* ref); an exception ends the loop and keeps what was appended before it
RECURSIVE augment_loop(_, _, _, _, _, _)
augment_loop(acc, ref, src, aug_idx, augment_per_image, fail) ==
    IF aug_idx >= augment_per_image THEN acc
    ELSE IF fail.kind = "augment" /\ fail.at = aug_idx THEN acc
    ELSE
    LET c == dict_copy(acc.heap, ref)
        tagged == setitem(setitem(setitem(c.heap, c.ref, "augmented", TRUE),
                                  c.ref, "aug_index", aug_idx + 1),
                          c.ref, "aug_type", aug_idx % NumAugTypes)
    IN  augment_loop([heap |-> tagged,
                      images |-> Append(acc.images, Image(src, aug_idx + 1)),
                      metadata |-> Append(acc.metadata, c.ref)],
                     ref, src, aug_idx + 1, augment_per_image, fail)

\* the first entry of a source: its image (or img) under sku_info itself
WithOriginal(acc, ref, img) ==
    [acc EXCEPT !.images = Append(@, img), !.metadata = Append(@, ref)]

\* monolithic, the body of the loop over the sources (lines 207-238).
\* encode_image_paths opens the file itself and encodes a blank image when it
\* cannot; Image.open of line 215 then raises, and so after the entry of the
\* original was appended.  The images stand for their embeddings.
encode_source(acc, ref, src, augment_per_image, fail) ==
    IF fail.kind = "encode" THEN acc
    ELSE IF fail.kind = "load" THEN WithOriginal(acc, ref, BlankImage(src))
    ELSE augment_loop(WithOriginal(acc, ref, Image(src, 0)),
                      ref, src, 0, augment_per_image, fail)

\* streaming, the body of the loop over the sources of a chunk (lines
\* 171-196): Image.open comes first, and nothing is appended when it raises
load_and_augment(acc, ref, src, augment_per_image, fail) ==
    IF fail.kind = "load" THEN acc
    ELSE augment_loop(WithOriginal(acc, ref, Image(src, 0)),
                      ref, src, 0, augment_per_image, fail)

\* parallel, process_single_sku((img_path, sku_info, augment_per_image)) in a
\* worker process, on its own copy of sku_info: the list of (image,
\* metadata) pairs as it arrives, pickled, in the coordinating process
process_single_sku(src, augment_per_image, fail) ==
    LET own == [heap |-> <<SkuInfo(src)>>, images |-> <<>>, metadata |-> <<>>]
        r == IF fail.kind = "load" THEN own
             ELSE augment_loop(WithOriginal(own, 1, Image(src, 0)),
                               1, src, 0, augment_per_image, fail)
    IN  [i \in DOMAIN r.images |->
            [img |-> r.images[i], metadata |-> r.heap[r.metadata[i]]]]

\* encoder.encode_images_batch(images): one embedding per image; np.vstack
\* raises on an empty list, and the encoder on an image it cannot encode
encode_images_batch(images, fails) ==
    IF images = <<>> THEN [err |-> "ValueError", embeddings |-> <<>>]
    ELSE IF \E i \in DOMAIN images : fails[images[i].src].kind = "encode"
    THEN [err |-> "RuntimeError", embeddings |-> <<>>]
    ELSE [err |-> "none", embeddings |-> [i \in DOMAIN images |-> Embedding(images[i])]]

\* the VectorDatabase every build makes: the configured index type (the
\* default, 'IndexFlatL2', here), metric='IP'
BuildConfig ==
    [dimension |-> 2, index_type |-> "IndexFlatL2", metric |-> "IP",
     nlist |-> DefaultNlist]

\* the loop of the monolithic build over the sources src..n
RECURSIVE source_loop(_, _, _, _, _)
source_loop(acc, src, n, augment_per_image, fails) ==
    IF src > n THEN acc
    ELSE source_loop(encode_source(acc, src, src, augment_per_image, fails[src]),
                     src + 1, n, augment_per_image, fails)

\* the loop of the streaming build over the sources src..chunk_end of a chunk
RECURSIVE chunk_loop(_, _, _, _, _)
chunk_loop(acc, src, chunk_end, augment_per_image, fails) ==
    IF src > chunk_end THEN acc
    ELSE chunk_loop(load_and_augment(acc, src, src, augment_per_image, fails[src]),
                    src + 1, chunk_end, augment_per_image, fails)

\* the tasks of the pool, batch by batch: batch b holds the sources
\* (b-1)*chunksize+1 .. b*chunksize, as far as there are sources
NumBatches(n) == (n + PoolChunksize - 1) \div PoolChunksize
BatchFirst(b) == (b - 1) * PoolChunksize + 1
BatchLast(b, n) == Min(b * PoolChunksize, n)

\* the results of the tasks src..last of a batch, in the order of the tasks
RECURSIVE batch_results(_, _, _, _)
batch_results(src, last, augment_per_image, fails) ==
    IF src > last THEN <<>>
    ELSE <<process_single_sku(src, augment_per_image, fails[src])>>
         \o batch_results(src + 1, last, augment_per_image, fails)

\* "for result in results: for img, metadata in result": the flattened lists
RECURSIVE Flatten(_)
Flatten(results) ==
    IF results = <<>> THEN <<>> ELSE Head(results) \o Flatten(Tail(results))

\* list(pool.imap_unordered(...)) hands out results as they arrive and does
\* not wait for the tasks still out
list_imap_lazy(batches) == TRUE

\* list(pool.imap_unordered(...)) returns when every task has returned
list_imap(batches) == \A b \in DOMAIN batches : batches[b] = "returned"

----------------------------------------------------------------------------
(* A run of a build script *)

\* the command lines and the sources of a run: every pattern of failures
\* over one to MaxSources sources and up to MaxAug versions, for every chunk
\* size of the streaming build; a run of more versions than there are kinds
\* of augmentation; and a parallel run of more tasks than one batch holds
BuildStrategies == {"monolithic", "streaming", "parallel"}

NoFailures(n) == [i \in 1..n |-> NoFailure]

BuildCases ==
    {c \in [strategy : BuildStrategies, n : 1..MaxSources,
            augment_per_image : 0..MaxAug, chunk_size : 1..MaxSources,
            fails : UNION {[1..m -> FailureKinds(MaxAug)] : m \in 1..MaxSources}] :
        /\ DOMAIN c.fails = 1..c.n
        /\ \A i \in 1..c.n : c.fails[i] \in FailureKinds(c.augment_per_image)
        /\ IF c.strategy = "streaming" THEN c.chunk_size <= c.n
           ELSE c.chunk_size = c.n}
    \cup {[strategy |-> s, n |-> 1, augment_per_image |-> NumAugTypes + 1,
           chunk_size |-> 1, fails |-> NoFailures(1)] : s \in BuildStrategies}
    \cup {[strategy |-> "parallel", n |-> PoolChunksize + 1, augment_per_image |-> 0,
           chunk_size |-> PoolChunksize + 1, fails |-> NoFailures(PoolChunksize + 1)]}

\* no summary is logged yet
NoSummary == [logged |-> FALSE]

\* "Generated {total} embeddings total", "- Original: {len(valid_skus)}",
\* "- Augmented: {total - len(valid_skus)}": the three lines of the summary
generated_summary(total, valid_skus) ==
    [logged |-> TRUE,
     total |-> total,
     original |-> valid_skus,
     augmented |-> total - valid_skus]

\* the state of a run as main() begins its work on the sources: valid_skus
\* holds the n sku_info dicts, nothing is encoded, no task is out
NewBuild(c) ==
    [strategy |-> c.strategy,
     n |-> c.n,
     augment_per_image |-> c.augment_per_image,
     chunk_size |-> c.chunk_size,
     num_workers |-> 2,
     fails |-> c.fails,
     pc |-> IF c.strategy = "parallel" THEN "pool" ELSE "sources",
     next |-> 1,
     heap |-> [i \in 1..c.n |-> SkuInfo(i)],
     images |-> <<>>,
     metadata |-> <<>>,
     embeddings |-> <<>>,
     batches |-> IF c.strategy = "parallel"
                 THEN [b \in 1..NumBatches(c.n) |-> "queued"] ELSE <<>>,
     results |-> <<>>,
     origin |-> <<>>,
     chunks |-> 0,
     encodes |-> 0,
     adds |-> 0,
     summary |-> NoSummary,
     error |-> "none"]

InitBuild ==
    /\ \E c \in BuildCases : build = NewBuild(c)
    /\ db = VectorDatabase(BuildConfig)
    /\ call = [op |-> "__init__", cfg |-> BuildConfig]
    /\ indexFile = MissingFile
    /\ metaFile = MissingFile
    /\ savePc = "idle"
    /\ err = "none"
    /\ ret = NoRet
    /\ saved = NoSaved
    /\ prev = NoSaved
    /\ nInserted = 0
    /\ detector = NoDetector
    /\ pipeline = NoPipeline
    /\ server = NoServer
    /\ augmenter = NoAugmenter
    /\ client = NoClient

\* what a step of a build leaves alone: the record of the calls made on a
\* VectorDatabase by hand, and the detector
buildRest == <<savePc, call, err, ret, saved, prev, nInserted, detector,
               pipeline, server, augmenter, client>>

\* the exception ends main(): the script exits with a traceback
Abort(rest, e) == build' = [rest EXCEPT !.pc = "aborted", !.error = e]

\* vector_db.add_embeddings(embeddings, metadata) as a step of main(), which
\* goes on to pc when it returns; images are the images of the rows
AddToIndex(self, embeddings, metadata, images, rest, pc) ==
    LET out == add_embeddings(self, embeddings, metadata, <<>>)
    IN  IF out.err # "none"
        THEN Abort([rest EXCEPT !.adds = @ + 1], out.err) /\ UNCHANGED db
        ELSE /\ db' = out.self
             /\ build' = [rest EXCEPT !.pc = pc,
                                      !.origin = @ \o images,
                                      !.adds = @ + 1]

\* monolithic: one turn of the loop over the sources
MonoEncodeSource ==
    /\ build.strategy = "monolithic" /\ build.pc = "sources"
    /\ build.next <= build.n
    /\ LET acc == encode_source(
                      [heap |-> build.heap, images |-> build.images,
                       metadata |-> build.metadata],
                      build.next, build.next, build.augment_per_image,
                      build.fails[build.next])
       IN  build' = [build EXCEPT
                        !.heap = acc.heap,
                        !.images = acc.images,
                        !.metadata = acc.metadata,
                        !.encodes = @ + (Len(acc.images) - Len(build.images)),
                        !.next = @ + 1]
    /\ UNCHANGED <<db, indexFile, metaFile>>
    /\ UNCHANGED buildRest

\* monolithic: np.vstack(all_embeddings), which raises on an empty list,
\* the lines of the summary, then VectorDatabase(...) and add_embeddings
MonoBuildIndex ==
    /\ build.strategy = "monolithic" /\ build.pc = "sources"
    /\ build.next > build.n
    /\ IF build.images = <<>> THEN Abort(build, "ValueError") /\ UNCHANGED db
       ELSE AddToIndex(VectorDatabase(BuildConfig),
                       [i \in DOMAIN build.images |-> Embedding(build.images[i])],
                       Deref(build.heap, build.metadata),
                       build.images,
                       [build EXCEPT !.summary =
                           generated_summary(Len(build.images), build.n)],
                       "save")
    /\ UNCHANGED <<indexFile, metaFile>>
    /\ UNCHANGED buildRest

\* streaming: one chunk: its sources are loaded and augmented; when any image
\* came of it the chunk is encoded and added to the index
StreamChunk ==
    /\ build.strategy = "streaming" /\ build.pc = "sources"
    /\ build.next <= build.n
    /\ LET chunk_end == Min(build.next + build.chunk_size - 1, build.n)
           acc == chunk_loop([heap |-> build.heap, images |-> <<>>, metadata |-> <<>>],
                             build.next, chunk_end, build.augment_per_image,
                             build.fails)
           enc == encode_images_batch(acc.images, build.fails)
           rest == [build EXCEPT !.heap = acc.heap,
                                 !.next = chunk_end + 1,
                                 !.encodes = @ + 1,
                                 !.chunks = @ + 1,
                                 !.metadata = @ \o acc.metadata]
       IN  IF acc.images = <<>>
           THEN /\ build' = [build EXCEPT !.heap = acc.heap, !.next = chunk_end + 1]
                /\ UNCHANGED db
           ELSE IF enc.err # "none" THEN Abort(rest, enc.err) /\ UNCHANGED db
           ELSE AddToIndex(db, enc.embeddings, Deref(acc.heap, acc.metadata),
                           acc.images, rest, "sources")
    /\ UNCHANGED <<indexFile, metaFile>>
    /\ UNCHANGED buildRest

\* streaming: the loop over the chunks is over, and the lines of the summary
\* are logged; total_embeddings is the sum of the lengths of the chunks added
StreamEnd ==
    /\ build.strategy = "streaming" /\ build.pc = "sources"
    /\ build.next > build.n
    /\ build' = [build EXCEPT !.pc = "save",
                              !.summary = generated_summary(Len(build.origin),
                                                            build.n)]
    /\ UNCHANGED <<db, indexFile, metaFile>>
    /\ UNCHANGED buildRest

\* parallel: a worker that is free takes the next batch of tasks
WorkerTake ==
    /\ build.strategy = "parallel" /\ build.pc = "pool"
    /\ Cardinality({a \in DOMAIN build.batches : build.batches[a] = "running"})
          < build.num_workers
    /\ \E b \in DOMAIN build.batches :
          /\ build.batches[b] = "queued"
          /\ \A a \in 1..(b - 1) : build.batches[a] # "queued"
          /\ build' = [build EXCEPT !.batches[b] = "running"]
    /\ UNCHANGED <<db, indexFile, metaFile>>
    /\ UNCHANGED buildRest

\* parallel: the worker has run process_single_sku on every task of its
\* batch, and the results arrive in the coordinating process
WorkerReturn ==
    /\ build.strategy = "parallel" /\ build.pc = "pool"
    /\ \E b \in DOMAIN build.batches :
          /\ build.batches[b] = "running"
          /\ build' = [build EXCEPT
                           !.batches[b] = "returned",
                           !.results = @ \o batch_results(BatchFirst(b),
                                                          BatchLast(b, build.n),
                                                          build.augment_per_image,
                                                          build.fails)]
    /\ UNCHANGED <<db, indexFile, metaFile>>
    /\ UNCHANGED buildRest

\* parallel: list(...) returns, the pool is closed, the results are flattened
\* and the lines of the summary are logged
PoolCollect ==
    /\ build.strategy = "parallel" /\ build.pc = "pool"
    /\ list_imap(build.batches)
    /\ LET flat == Flatten(build.results)
       IN  build' = [build EXCEPT
                        !.pc = "encode",
                        !.images = [i \in DOMAIN flat |-> flat[i].img],
                        !.metadata = [i \in DOMAIN flat |-> flat[i].metadata],
                        !.summary = generated_summary(Len(flat), build.n)]
    /\ UNCHANGED <<db, indexFile, metaFile>>
    /\ UNCHANGED buildRest

\* parallel: encoder.encode_images_batch(all_images)
ParallelEncode ==
    /\ build.strategy = "parallel" /\ build.pc = "encode"
    /\ LET enc == encode_images_batch(build.images, build.fails)
           called == [build EXCEPT !.encodes = @ + 1]
       IN  IF enc.err # "none" THEN Abort(called, enc.err)
           ELSE build' = [called EXCEPT !.pc = "index",
                                        !.embeddings = enc.embeddings]
    /\ UNCHANGED <<db, indexFile, metaFile>>
    /\ UNCHANGED buildRest

\* parallel: VectorDatabase(...) and add_embeddings
ParallelBuildIndex ==
    /\ build.strategy = "parallel" /\ build.pc = "index"
    /\ AddToIndex(VectorDatabase(BuildConfig), build.embeddings, build.metadata,
                  build.images, build, "save")
    /\ UNCHANGED <<indexFile, metaFile>>
    /\ UNCHANGED buildRest

\* every build: vector_db.save(output_index, output_metadata)
BuildSave ==
    /\ build.pc = "save"
    /\ indexFile' = CompleteFile(write_index(db.index))
    /\ metaFile' = CompleteFile(pickle_dump(db))
    /\ build' = [build EXCEPT !.pc = "stats"]
    /\ UNCHANGED db
    /\ UNCHANGED buildRest

\* every build: get_stats and the lines of the summary
BuildSummary ==
    /\ build.pc = "stats"
    /\ build' = [build EXCEPT !.pc = "done"]
    /\ UNCHANGED <<db, indexFile, metaFile>>
    /\ UNCHANGED buildRest

\* the process of a build is killed where it stands
BuildKill ==
    /\ build.pc \in {"sources", "pool", "encode", "index", "save", "stats"}
    /\ build' = [build EXCEPT !.pc = "killed"]
    /\ UNCHANGED <<db, indexFile, metaFile>>
    /\ UNCHANGED buildRest

NextBuild ==
    \/ MonoEncodeSource
    \/ MonoBuildIndex
    \/ StreamChunk
    \/ StreamEnd
    \/ WorkerTake
    \/ WorkerReturn
    \/ PoolCollect
    \/ ParallelEncode
    \/ ParallelBuildIndex
    \/ BuildSave
    \/ BuildSummary
    \/ BuildKill

SpecBuild == InitBuild /\ [][NextBuild]_vars

----------------------------------------------------------------------------
(* src/src/models/grounding_dino.py: the GroundingDINODetector.  An image  *)
(* is a PIL Image or a numpy array of a width and a height in pixels.  The *)
(* groundingdino package is outside the repository: its predict either     *)
(* raises or returns boxes as (cx, cy, w, h), each a fraction of the image  *)
(* kept in units of 1 / BoxScale, with a logit and a phrase per box.        *)

\* the unit of a normalized box coordinate: c stands for c / BoxScale
BoxScale == 4

PilImage(w, h) == [kind |-> "pil", w |-> w, h |-> h]
NdArray(w, h) == [kind |-> "ndarray", w |-> w, h |-> h]

\* image.size of a PIL image is (w, h); array.shape[:2] is (h, w)
size(image) == <<image.w, image.h>>
shape2(image) == <<image.h, image.w>>

\* Image.fromarray(array)
fromarray(image) == PilImage(shape2(image)[2], shape2(image)[1])

\* __init__: self.model after construction.  The model is None when the
\* package cannot be imported and when no config file and checkpoint are
\* given (the default model is not implemented); load_model's own failure is
\* not caught.
GroundingDINODetector(env) ==
    IF ~env.installed THEN [err |-> "none", model |-> "None"]
    ELSE IF ~env.paths_given THEN [err |-> "none", model |-> "None"]
    ELSE IF ~env.checkpoint_ok THEN [err |-> "FileNotFoundError", model |-> "None"]
    ELSE [err |-> "none", model |-> "loaded"]

Detections(boxes, scores, labels) ==
    [err |-> "none", boxes |-> boxes, scores |-> scores, labels |-> labels]

\* the fallback that reads an array's shape as (w, h)
fallback_detect_transposed(image) ==
    LET w == IF image.kind = "pil" THEN size(image)[1] ELSE shape2(image)[1]
        h == IF image.kind = "pil" THEN size(image)[2] ELSE shape2(image)[2]
    IN  Detections(<< <<0, 0, w, h>> >>, <<Frac(1, 1)>>, <<"product">>)

\* _fallback_detect(image): the whole image as the one detection
fallback_detect(image) ==
    LET w == IF image.kind = "pil" THEN size(image)[1] ELSE shape2(image)[2]
        h == IF image.kind = "pil" THEN size(image)[2] ELSE shape2(image)[1]
    IN  Detections(<< <<0, 0, w, h>> >>, <<Frac(1, 1)>>, <<"product">>)

\* a box (cx, cy, w, h) in fractions of the image, as [x1, y1, x2, y2] in
\* pixels
Denormalize(b, w, h) ==
    <<((2 * b[1] - b[3]) * w) \div (2 * BoxScale),
      ((2 * b[2] - b[4]) * h) \div (2 * BoxScale),
      ((2 * b[1] + b[3]) * w) \div (2 * BoxScale),
      ((2 * b[2] + b[4]) * h) \div (2 * BoxScale)>>

\* detect(image, text_prompt), predicted being what predict_fn does when it
\* is called
detect(self, image, text_prompt, predicted) ==
    IF self.model = "None" THEN fallback_detect(image)
    ELSE
    LET pil == IF image.kind = "ndarray" THEN fromarray(image) ELSE image
    IN  IF predicted.kind = "raise" THEN fallback_detect(pil)
        ELSE IF Len(predicted.boxes) > 0
        THEN Detections([i \in DOMAIN predicted.boxes |->
                            Denormalize(predicted.boxes[i], size(pil)[1], size(pil)[2])],
                        predicted.logits, predicted.phrases)
        ELSE Detections(<<>>, <<>>, <<>>)

\* where a detector is made: is groundingdino installed, are a config file
\* and a checkpoint given, can the checkpoint be loaded
DetectorEnvs == [installed : BOOLEAN, paths_given : BOOLEAN, checkpoint_ok : BOOLEAN]

DetectImages ==
    {PilImage(8, 16), PilImage(16, 8), PilImage(8, 8),
     NdArray(8, 16), NdArray(16, 8), NdArray(8, 8)}

TextPrompts == {"product", "bottle . box"}

\* what predict does: it raises, finds nothing, finds one box (in the
\* middle, or over the whole image), finds two
PredictOutcomes ==
    {[kind |-> "raise", boxes |-> <<>>, logits |-> <<>>, phrases |-> <<>>],
     [kind |-> "boxes", boxes |-> << <<2, 2, 4, 4>> >>, logits |-> <<Frac(5, 10)>>,
      phrases |-> <<"product">>],
     [kind |-> "boxes", boxes |-> <<>>, logits |-> <<>>, phrases |-> <<>>],
     [kind |-> "boxes", boxes |-> << <<2, 2, 2, 2>> >>, logits |-> <<Frac(9, 10)>>,
      phrases |-> <<"product">>],
     [kind |-> "boxes", boxes |-> << <<1, 1, 2, 2>>, <<3, 2, 2, 4>> >>,
      logits |-> <<Frac(8, 10), Frac(4, 10)>>, phrases |-> <<"bottle", "box">>]}

InitDetect ==
    /\ \E env \in DetectorEnvs :
          /\ GroundingDINODetector(env).err = "none"
          /\ detector = [pc |-> "made", model |-> GroundingDINODetector(env).model,
                         call |-> [op |-> "__init__", env |-> env],
                         err |-> "none", ret |-> NoRet]
    /\ build = NoBuild
    /\ db = VectorDatabase(BuildConfig)
    /\ call = [op |-> "__init__", cfg |-> BuildConfig]
    /\ indexFile = MissingFile
    /\ metaFile = MissingFile
    /\ savePc = "idle"
    /\ err = "none"
    /\ ret = NoRet
    /\ saved = NoSaved
    /\ prev = NoSaved
    /\ nInserted = 0
    /\ pipeline = NoPipeline
    /\ server = NoServer
    /\ augmenter = NoAugmenter
    /\ client = NoClient

\* what a call on the detector leaves alone
detectRest == <<db, indexFile, metaFile, savePc, call, err, ret, saved, prev,
                nInserted, build, pipeline, server, augmenter, client>>

\* GroundingDINODetector(...): a new detector takes the place of the old
\* one, unless the constructor raises
MakeDetector(env) ==
    /\ LET made == GroundingDINODetector(env)
       IN  detector' = [detector EXCEPT
                           !.model = IF made.err = "none" THEN made.model ELSE @,
                           !.call = [op |-> "__init__", env |-> env],
                           !.err = made.err,
                           !.ret = NoRet]
    /\ UNCHANGED detectRest

Detect(image, text_prompt, predicted) ==
    /\ LET r == detect(detector, image, text_prompt, predicted)
       IN  detector' = [detector EXCEPT
                           !.call = [op |-> "detect", model |-> detector.model,
                                     image |-> image, text_prompt |-> text_prompt,
                                     predicted |-> predicted],
                           !.err = r.err,
                           !.ret = r]
    /\ UNCHANGED detectRest

NextDetect ==
    \/ \E env \in DetectorEnvs : MakeDetector(env)
    \/ \E image \in DetectImages, text_prompt \in TextPrompts,
          predicted \in PredictOutcomes : Detect(image, text_prompt, predicted)

SpecDetect == InitDetect /\ [][NextDetect]_vars

----------------------------------------------------------------------------
(* src/src/pipeline/inference.py: the SKURecognitionPipeline, made of a    *)
(* detector, a CLIP encoder and a VectorDatabase.  The CLIP model is        *)
(* outside the repository: the embedding it makes of each crop is an input *)
(* of the call.  A metadata record is a Python dict.                        *)

Max(a, b) == IF a >= b THEN a ELSE b

\* the least height and width of a crop that is looked up
MinCropSide == 10

\* config['inference'] of _default_config, the threshold as a fraction
DefaultThreshold == Frac(7, 10)
DefaultTopK == 5

\* dict.get(key): None for a key the dict does not hold
get(d, key) == IF key \in DOMAIN d THEN d[key] ELSE "None"

\* __init__ with the components it makes itself: a detector made in env and
\* a VectorDatabase that holds nothing; loaded is history, set once
\* load_database has returned
SKURecognitionPipeline(cfg) ==
    [pc |-> "made",
     detector |-> [model |-> GroundingDINODetector(cfg.env).model],
     vector_db |-> VectorDatabase([dimension |-> cfg.dimension,
                                   index_type |-> "IndexFlatL2",
                                   metric |-> "L2",
                                   nlist |-> DefaultNlist]),
     confidence_threshold |-> cfg.confidence_threshold,
     top_k |-> cfg.top_k,
     loaded |-> FALSE]

\* the pipeline after vector_db.load has returned or raised
after_load(self, out) ==
    [self |-> [self EXCEPT !.vector_db = out.self,
                           !.loaded = @ \/ out.err = "none"],
     err |-> out.err]

\* load_database(index_path, metadata_path)
load_database(self, idxFile, mdFile) ==
    after_load(self, load(self.vector_db, idxFile, mdFile))

\* detect_products(image, text_prompt): the prompts of the configuration
\* stand in for a prompt that is None
detect_products(self, image, text_prompt, predicted) ==
    detect(self.detector, image,
           IF text_prompt = "None"
           THEN "retail product. furniture item. decor item" ELSE text_prompt,
           predicted)

\* crop_detections(image, boxes): the part of the image inside each box, the
\* box cut to the image; a crop is an array, known by the rectangle it was
\* cut from
crop_detections(image, boxes) ==
    [i \in DOMAIN boxes |->
        LET h == shape2(image)[1]
            w == shape2(image)[2]
            x1 == Max(0, Min(boxes[i][1], w))
            y1 == Max(0, Min(boxes[i][2], h))
            x2 == Max(0, Min(boxes[i][3], w))
            y2 == Max(0, Min(boxes[i][4], h))
        IN  [kind |-> "ndarray", x1 |-> x1, y1 |-> y1,
             h |-> Max(0, y2 - y1), w |-> Max(0, x2 - x1)]]

\* recognize_sku(crop), embedding being what the CLIP model makes of the crop
recognize_sku(self, crop, embedding) ==
    search(self.vector_db, embedding, self.top_k)

\* the list comprehension over zip(sku_results, similarities)
top_matches(sku_results, similarities) ==
    [r \in 1..Min(Len(sku_results), Len(similarities)) |->
        [sku |-> get(sku_results[r], "sku"),
         title |-> get(sku_results[r], "title"),
         category |-> get(sku_results[r], "category"),
         similarity |-> similarities[r],
         metadata |-> sku_results[r]]]

\* the filter without its threshold
passes_filter_any(self, found) == Len(found.results) > 0

\* "Filter by confidence threshold": is a result made of what was found
passes_filter(self, found) ==
    /\ Len(found.results) > 0
    /\ FracGeq(found.similarities[1], self.confidence_threshold)

\* one turn of the loop: found is what recognize_sku returned for the i-th
\* region, rest what the later turns append
loop_turn(self, det, i, found, rest) ==
    IF found.err # "none" THEN [err |-> found.err, results |-> <<>>]
    ELSE IF rest.err # "none" THEN rest
    ELSE IF passes_filter(self, found)
    THEN [err |-> "none",
          results |-> << [detection_id |-> i - 1,
                          box |-> det.boxes[i],
                          detection_score |-> det.scores[i],
                          detection_label |-> det.labels[i],
                          top_matches |-> top_matches(found.results,
                                                      found.similarities)] >>
                      \o rest.results]
    ELSE rest

\* the loop over the regions from the i-th on: the results it appends, or the
\* exception a search raises
RECURSIVE recognize_loop(_, _, _, _, _)
recognize_loop(self, det, crops, embeddings, i) ==
    IF i > Min(Len(det.boxes), Len(crops))
    THEN [err |-> "none", results |-> <<>>]
    ELSE IF shape2(crops[i])[1] < MinCropSide \/ shape2(crops[i])[2] < MinCropSide
    THEN recognize_loop(self, det, crops, embeddings, i + 1)
    ELSE loop_turn(self, det, i,
                   recognize_sku(self, crops[i], embeddings[i]),
                   recognize_loop(self, det, crops, embeddings, i + 1))

\* the steps of process_image after the detection
recognize_regions(self, image, det, embeddings) ==
    IF Len(det.boxes) = 0 THEN [err |-> "none", results |-> <<>>]
    ELSE recognize_loop(self, det, crop_detections(image, det.boxes),
                        embeddings, 1)

\* process_image(image, text_prompt): the list it returns, or the exception
\* it raises
process_image(self, image, text_prompt, predicted, embeddings) ==
    recognize_regions(self, image,
                      detect_products(self, image, text_prompt, predicted),
                      embeddings)

\* the configurations a pipeline is made with
PipelineConfigs ==
    [env : {e \in DetectorEnvs : e.installed /\ e.checkpoint_ok},
     dimension : {2},
     confidence_threshold : {DefaultThreshold, Frac(9, 10)},
     top_k : {1, DefaultTopK}]

\* the databases a build has saved: flat ones of the build scripts'
\* configuration and of the default one, and a clustered one of two lists
PipelineDatabases ==
    {add_embeddings(VectorDatabase(BuildConfig),
                    << <<6, 8>>, <<0, 5>>, <<5, 0>> >>,
                    << [sku |-> "skuA", title |-> "Chair", category |-> "FURNITURE"],
                       [sku |-> "skuB", title |-> "Lamp"],
                       [sku |-> "skuC"] >>, <<>>).self,
     add_embeddings(VectorDatabase([dimension |-> 2, index_type |-> "IndexFlatL2",
                                    metric |-> "L2", nlist |-> DefaultNlist]),
                    << <<3, 4>>, <<0, 5>> >>,
                    << [sku |-> "skuA", title |-> "Chair"], [sku |-> "skuB"] >>,
                    <<>>).self,
     add_embeddings(VectorDatabase([dimension |-> 2, index_type |-> "IndexIVFFlat",
                                    metric |-> "L2", nlist |-> 2]),
                    << <<3, 4>>, <<0, 5>> >>,
                    << [sku |-> "skuA", title |-> "Chair"], [sku |-> "skuB"] >>,
                    <<1, 2>>).self}

\* the pairs of files load_database is pointed at: what save wrote of such a
\* database, and a path where no file is
PipelineStores ==
    {[index |-> CompleteFile(write_index(b.index)),
      metadata |-> CompleteFile(pickle_dump(b))] : b \in PipelineDatabases}
    \cup {[index |-> MissingFile, metadata |-> MissingFile]}

PipelineImages == {PilImage(16, 16), NdArray(40, 20), PilImage(40, 40)}

\* what the CLIP model makes of the crops of an image, at most two
PipelineEmbeddings ==
    {<<a, b>> : a \in {<<3, 4>>, <<5, 0>>, <<0, 10>>}, b \in {<<3, 4>>, <<5, 0>>}}

PipelinePrompts == {"None"}

PipelineIdle ==
    /\ build = NoBuild
    /\ detector = NoDetector
    /\ db = VectorDatabase(BuildConfig)
    /\ call = [op |-> "__init__", cfg |-> BuildConfig]
    /\ indexFile = MissingFile
    /\ metaFile = MissingFile
    /\ savePc = "idle"
    /\ err = "none"
    /\ ret = NoRet
    /\ saved = NoSaved
    /\ prev = NoSaved
    /\ nInserted = 0

InitPipeline ==
    /\ \E cfg \in PipelineConfigs :
          pipeline = [self |-> SKURecognitionPipeline(cfg),
                      call |-> [op |-> "__init__", cfg |-> cfg],
                      err |-> "none", ret |-> NoRet]
    /\ server = NoServer
    /\ augmenter = NoAugmenter
    /\ client = NoClient
    /\ PipelineIdle

\* what a call on the pipeline leaves alone
pipelineRest == <<db, indexFile, metaFile, savePc, call, err, ret, saved, prev,
                  nInserted, build, detector, server, augmenter, client>>

\* the record of a call on the pipeline that left it as out.self
PipelineCalled(c, out, r) ==
    [self |-> out.self, call |-> c, err |-> out.err, ret |-> r]

LoadDatabase ==
    /\ \E store \in PipelineStores :
          pipeline' = PipelineCalled(
                          [op |-> "load_database", store |-> store],
                          load_database(pipeline.self, store.index, store.metadata),
                          NoRet)
    /\ UNCHANGED pipelineRest

\* the record of a call that returned or raised out and left the object alone
PipelineAsked(c, out) == [pipeline EXCEPT !.call = c, !.err = out.err, !.ret = out]

ProcessImage ==
    /\ \E image \in PipelineImages, text_prompt \in PipelinePrompts,
          predicted \in PredictOutcomes, embeddings \in PipelineEmbeddings :
          pipeline' = PipelineAsked(
                          [op |-> "process_image", image |-> image,
                           text_prompt |-> text_prompt, predicted |-> predicted,
                           embeddings |-> embeddings],
                          process_image(pipeline.self, image, text_prompt,
                                        predicted, embeddings))
    /\ UNCHANGED pipelineRest

NextPipeline ==
    \/ LoadDatabase
    \/ ProcessImage

SpecPipeline == InitPipeline /\ [][NextPipeline]_vars

----------------------------------------------------------------------------
(* src/scripts/api_server.py: the recognition API.  `state` is the module's *)
(* APIState object; the handlers are functions of it, called by whatever    *)
(* ASGI host serves `app`.  A handler runs from its first line to its       *)
(* return or raise without another request in between.                      *)

\* most requests a run counts
MaxRequests == 3

\* the least and the most width and height validate_image accepts
MinImageSide == 50
MaxImageSide == 4096

\* None where a pipeline or an image is expected
NonePipeline == [pc |-> "None"]
NoneImage == [kind |-> "None"]

\* APIState.__init__
APIState ==
    [pipeline |-> NonePipeline,
     stats |-> [total_requests |-> 0, successful_requests |-> 0,
                failed_requests |-> 0, total_processing_time |-> 0]]

\* the configuration of config/config.yaml
ServerConfig ==
    [env |-> [installed |-> TRUE, paths_given |-> FALSE, checkpoint_ok |-> TRUE],
     dimension |-> 2,
     confidence_threshold |-> DefaultThreshold,
     top_k |-> DefaultTopK]

\* the end of startup_event, out being what load_database did
after_load_database(st, out) ==
    [state |-> [st EXCEPT !.pipeline = out.self],
     err |-> IF out.err # "none" THEN out.err ELSE "AttributeError"]

\* startup_event(): the state it leaves and the exception it raises.  The
\* pipeline is assigned before the database files are looked for and
\* loaded; the log line after the load reads state.pipeline.sku_metadata,
\* an attribute no SKURecognitionPipeline has.
startup_event(st, env) ==
    IF ~env.config_exists THEN [state |-> st, err |-> "FileNotFoundError"]
    ELSE
    IF env.store.index.state = "missing" \/ env.store.metadata.state = "missing"
    THEN [state |-> [st EXCEPT !.pipeline = SKURecognitionPipeline(ServerConfig)],
          err |-> "FileNotFoundError"]
    ELSE after_load_database(st, load_database(SKURecognitionPipeline(ServerConfig),
                                               env.store.index, env.store.metadata))

\* validate_image(image): the exception it raises, if any (the check of the
\* JPEG size is left out: no image of the model comes near 10 MB)
validate_image(image) ==
    IF size(image)[1] < MinImageSide \/ size(image)[2] < MinImageSide
    THEN "ValueError"
    ELSE IF size(image)[1] > MaxImageSide \/ size(image)[2] > MaxImageSide
    THEN "ValueError"
    ELSE "none"

\* format_sku_match(result): result['sku'] and result['similarity'] are
\* subscripted, the other fields are read with get
format_sku_match(result) ==
    IF "sku" \notin DOMAIN result \/ "similarity" \notin DOMAIN result
    THEN [err |-> "KeyError"]
    ELSE [err |-> "none", sku |-> result.sku, similarity |-> result.similarity,
          product_title |-> get(result, "product_title"),
          category |-> get(result, "category")]

\* the parameters of SKURecognitionPipeline.process_image besides self
ProcessImageParams == {"image", "text_prompt", "visualize", "output_dir"}

\* state.pipeline.process_image(image, **kwargs): Python raises TypeError on
\* a keyword the function does not take, before its body runs
call_process_image(self, image, kwargs, predicted, embeddings) ==
    IF ~(DOMAIN kwargs \subseteq ProcessImageParams)
    THEN [err |-> "TypeError", results |-> <<>>]
    ELSE process_image(self, image, get(kwargs, "text_prompt"), predicted,
                       embeddings)

RecognitionResponse(success, matches, message) ==
    [kind |-> "response", success |-> success, matches |-> matches,
     message |-> message]

HTTPException(status_code) == [kind |-> "HTTPException", status_code |-> status_code]

\* "except Exception": the failure is counted and answered
recognition_failed(st, total, e) ==
    [state |-> [st EXCEPT !.stats.total_requests = total,
                          !.stats.failed_requests = @ + 1],
     response |-> RecognitionResponse(FALSE, <<>>, e)]

\* "Format results" and "Update stats", out being what process_image
\* returned or raised; total is the count of requests, already incremented;
\* elapsed is the processing time
format_and_count(st, total, out, elapsed) ==
    LET matches == [r \in DOMAIN out.results |-> format_sku_match(out.results[r])]
    IN  IF out.err # "none" THEN recognition_failed(st, total, out.err)
        ELSE IF \E r \in DOMAIN matches : matches[r].err # "none"
        THEN recognition_failed(st, total, "KeyError")
        ELSE [state |-> [st EXCEPT
                            !.stats.total_requests = total,
                            !.stats.successful_requests = @ + 1,
                            !.stats.total_processing_time = @ + elapsed],
              response |-> RecognitionResponse(
                               TRUE, matches,
                               IF Len(matches) > 0 THEN "Found matches"
                               ELSE "No matches found")]

\* the common part of the two handlers, from validate_image to the return
recognize_image(st, total, image, top_k, confidence_threshold, predicted, embeddings, elapsed) ==
    IF validate_image(image) # "none"
    THEN recognition_failed(st, total, "ValueError")
    ELSE format_and_count(
             st, total,
             call_process_image(st.pipeline, image,
                                [top_k |-> top_k,
                                 confidence_threshold |-> confidence_threshold],
                                predicted, embeddings),
             elapsed)

\* an HTTPException is raised again: nothing but the request is counted
http_error(st, total, status_code) ==
    [state |-> [st EXCEPT !.stats.total_requests = total],
     response |-> HTTPException(status_code)]

\* content_type.startswith('image/'), over the content types of the model
IsImageType(content_type) == content_type \in {"image/jpeg", "image/png"}

\* recognize_upload(file, top_k, confidence_threshold); file.image is what
\* Image.open makes of the contents, None when it cannot read them
recognize_upload(st, file, top_k, confidence_threshold, predicted, embeddings, elapsed) ==
    LET total == st.stats.total_requests + 1
    IN  IF st.pipeline.pc = "None" THEN http_error(st, total, 503)
        ELSE IF file.content_type = "None" \/ ~IsImageType(file.content_type)
        THEN http_error(st, total, 400)
        ELSE IF file.image.kind = "None"
        THEN recognition_failed(st, total, "UnidentifiedImageError")
        ELSE recognize_image(st, total, file.image, top_k, confidence_threshold,
                             predicted, embeddings, elapsed)

\* recognize_base64(request); request.image is what decode_base64_image
\* makes of image_base64, None when it raises
recognize_base64(st, request, predicted, embeddings, elapsed) ==
    LET total == st.stats.total_requests + 1
    IN  IF st.pipeline.pc = "None" THEN http_error(st, total, 503)
        ELSE IF request.image.kind = "None"
        THEN recognition_failed(st, total, "ValueError")
        ELSE recognize_image(st, total, request.image, request.top_k,
                             request.confidence_threshold, predicted,
                             embeddings, elapsed)

\* get_stats(): the statistics served
api_get_stats(st) ==
    [kind |-> "stats",
     total_requests |-> st.stats.total_requests,
     successful_requests |-> st.stats.successful_requests,
     failed_requests |-> st.stats.failed_requests,
     average_processing_time_ms |->
         IF st.stats.total_requests > 0
         THEN Frac(st.stats.total_processing_time, st.stats.total_requests)
         ELSE Frac(0, 1)]

\* where the server starts: is there a config file, and which database files
StartupEnvs ==
    [config_exists : BOOLEAN,
     store : {s \in PipelineStores :
                 s.index.state = "missing"
                 \/ s.index.data.fourcc # Fourcc("IndexIVFFlat")}]

\* the uploads: an image of a fair size, one too small, a file that is no
\* image, an image file that cannot be read, a file without a content type
Uploads ==
    {[content_type |-> "image/jpeg", image |-> PilImage(64, 64)],
     [content_type |-> "image/png", image |-> PilImage(40, 64)],
     [content_type |-> "text/plain", image |-> NoneImage],
     [content_type |-> "image/jpeg", image |-> NoneImage],
     [content_type |-> "None", image |-> PilImage(64, 64)]}

RequestTopKs == {1, 3}
RequestThresholds == {Frac(1, 2), Frac(9, 10)}

Base64Requests ==
    [image : {PilImage(64, 64), NoneImage},
     top_k : RequestTopKs,
     confidence_threshold : RequestThresholds]

\* what the detector and the CLIP model make of the image of a request
RequestPredictions == {p \in PredictOutcomes : Len(p.boxes) = 1}
RequestEmbeddings == {<< <<3, 4>>, <<3, 4>> >>}

InitServer ==
    /\ server = [pc |-> "constructed", state |-> APIState,
                 call |-> [op |-> "APIState"], err |-> "none", ret |-> NoRet]
    /\ pipeline = NoPipeline
    /\ augmenter = NoAugmenter
    /\ client = NoClient
    /\ PipelineIdle

\* what the server leaves alone
serverRest == <<db, indexFile, metaFile, savePc, call, err, ret, saved, prev,
                nInserted, build, detector, pipeline, augmenter, client>>

\* the record of the startup event that ended as out
Started(c, out) ==
    [pc |-> IF out.err = "none" THEN "started" ELSE "startup failed",
     state |-> out.state, call |-> c, err |-> out.err, ret |-> NoRet]

\* the startup event, run once by a host that runs it
Startup ==
    /\ server.pc = "constructed"
    /\ \E env \in StartupEnvs :
          server' = Started([op |-> "startup_event", env |-> env],
                            startup_event(server.state, env))
    /\ UNCHANGED serverRest

\* the record of a request that ended as out
Answered(c, out) ==
    [server EXCEPT !.state = out.state,
                   !.call = c,
                   !.err = IF out.response.kind = "HTTPException"
                           THEN "HTTPException" ELSE "none",
                   !.ret = out.response]

RecognizeUpload ==
    /\ server.state.stats.total_requests < MaxRequests
    /\ \E file \in Uploads, top_k \in RequestTopKs,
          confidence_threshold \in RequestThresholds,
          predicted \in RequestPredictions, embeddings \in RequestEmbeddings :
          server' = Answered([op |-> "recognize_upload", file |-> file,
                              top_k |-> top_k,
                              confidence_threshold |-> confidence_threshold,
                              predicted |-> predicted, embeddings |-> embeddings],
                             recognize_upload(server.state, file, top_k,
                                              confidence_threshold, predicted,
                                              embeddings, 1))
    /\ UNCHANGED serverRest

RecognizeBase64 ==
    /\ server.state.stats.total_requests < MaxRequests
    /\ \E request \in Base64Requests,
          predicted \in RequestPredictions, embeddings \in RequestEmbeddings :
          server' = Answered([op |-> "recognize_base64", request |-> request,
                              predicted |-> predicted, embeddings |-> embeddings],
                             recognize_base64(server.state, request, predicted,
                                              embeddings, 1))
    /\ UNCHANGED serverRest

ServeStats ==
    /\ server' = [server EXCEPT !.call = [op |-> "get_stats"],
                                !.err = "none",
                                !.ret = api_get_stats(server.state)]
    /\ UNCHANGED serverRest

NextServer ==
    \/ Startup
    \/ RecognizeUpload
    \/ RecognizeBase64
    \/ ServeStats

SpecServer == InitServer /\ [][NextServer]_vars

----------------------------------------------------------------------------
(* The two ImageAugmenter classes: src/src/utils/augmentation.py (the one   *)
(* the tests import) and src/image_augmentation.py.  An image is known by   *)
(* its size and by the augmentation that made it; random.choice is an input *)
(* of the call, one choice a turn of the loop.                              *)

\* image.copy(), and an image as an augmentation leaves it: all the
\* augmentations of the default lists keep the size
copy(image) == image
Augmented(image, augmentation_type) == [image EXCEPT !.made_by = augmentation_type]

\* the default augmentation_types of src/src/utils/augmentation.py
UtilsAugmentationTypes == {"flip_h", "crop", "brightness", "contrast", "noise"}

\* aug_types of src/image_augmentation.py
TopAugmentationTypes == {"flip", "crop", "brightness", "noise"}

\* augment(image, augmentation_type) of src/src/utils/augmentation.py
augment(image, augmentation_type) ==
    IF augmentation_type \in UtilsAugmentationTypes \cup {"flip_v", "rotate"}
    THEN Augmented(image, augmentation_type)
    ELSE image

\* augment(image, augmentation_type) of src/image_augmentation.py
image_augmentation_augment(image, augmentation_type) ==
    IF augmentation_type \in TopAugmentationTypes
    THEN Augmented(image, augmentation_type)
    ELSE image

\* f"{aug_type}_{i+1}", i being the loop variable that starts at 0
AugmentationName(aug_type, i) == aug_type \o "_" \o ToString(i + 1)

\* generate_augmentations(image, num_augmentations) of
\* src/src/utils/augmentation.py, with the default augmentation_types;
\* choices[i + 1] is what random.choice returns in turn i
generate_augmentations(image, num_augmentations, choices) ==
    [i \in 1..num_augmentations |->
        <<augment(copy(image), choices[i]), AugmentationName(choices[i], i - 1)>>]

\* generate_augmentations(image, num_augmentations) of
\* src/image_augmentation.py
image_augmentation_generate_augmentations(image, num_augmentations, choices) ==
    << <<copy(image), "original">> >>
    \o [i \in 1..num_augmentations |->
           <<image_augmentation_augment(copy(image), choices[i]),
             AugmentationName(choices[i], i - 1)>>]

\* the images handed to an augmenter
AugmenterImages ==
    {[kind |-> "pil", w |-> 224, h |-> 224, made_by |-> "none"],
     [kind |-> "pil", w |-> 64, h |-> 32, made_by |-> "none"],
     [kind |-> "pil", w |-> 100, h |-> 50, made_by |-> "none"]}

\* the outcomes of n calls of random.choice(types)
Choices(types, n) == [1..n -> types]

InitAugmenter ==
    /\ augmenter = [pc |-> "made", call |-> [op |-> "__init__"], ret |-> <<>>]
    /\ pipeline = NoPipeline
    /\ server = NoServer
    /\ client = NoClient
    /\ PipelineIdle

\* what a call on an augmenter leaves alone
augmenterRest == <<db, indexFile, metaFile, savePc, call, err, ret, saved, prev,
                   nInserted, build, detector, pipeline, server, client>>

GenerateAugmentations ==
    /\ \E image \in AugmenterImages, n \in 0..MaxAug :
          \E choices \in Choices(UtilsAugmentationTypes, n) :
             augmenter' = [augmenter EXCEPT
                              !.call = [op |-> "generate_augmentations",
                                        module |-> "src.utils.augmentation",
                                        image |-> image,
                                        num_augmentations |-> n],
                              !.ret = generate_augmentations(image, n, choices)]
    /\ UNCHANGED augmenterRest

TopGenerateAugmentations ==
    /\ \E image \in AugmenterImages, n \in 0..MaxAug :
          \E choices \in Choices(TopAugmentationTypes, n) :
             augmenter' = [augmenter EXCEPT
                              !.call = [op |-> "generate_augmentations",
                                        module |-> "image_augmentation",
                                        image |-> image,
                                        num_augmentations |-> n],
                              !.ret = image_augmentation_generate_augmentations(
                                          image, n, choices)]
    /\ UNCHANGED augmenterRest

NextAugmenter ==
    \/ GenerateAugmentations
    \/ TopGenerateAugmentations

SpecAugmenter == InitAugmenter /\ [][NextAugmenter]_vars

----------------------------------------------------------------------------
(* src/src/api/mysql_client.py: the MySQLClient and the MySQL server it     *)
(* talks to.  The server is known by whether it can be reached and by the   *)
(* rows of its product_variants table; a row and a product are Python       *)
(* dicts.                                                                   *)

\* "if not sku": None and the empty string are falsy
Falsy(v) == v = "None" \/ v = ""

\* connection.is_connected()
is_connected(self, mysql) == self.connection = "open" /\ mysql.reachable

\* connect(): mysql.connector.connect raises when the server cannot be
\* reached, and the attribute keeps what it held
connect(self, mysql) ==
    IF mysql.reachable THEN [self |-> [self EXCEPT !.connection = "open"],
                             err |-> "none"]
    ELSE [self |-> self, err |-> "Error"]

\* the rows a cursor fetches for "... WHERE v.product_id = %s"
RowsOf(mysql, product_id) ==
    SelectSeq(mysql.product_variants, LAMBDA row : row.product_id = product_id)

\* the query of a client connected as `connected` says
query_variants(connected, mysql, product_id) ==
    IF connected.err # "none"
    THEN [self |-> connected.self, err |-> connected.err, rows |-> <<>>]
    ELSE [self |-> connected.self, err |-> "none",
          rows |-> RowsOf(mysql, product_id)]

\* get_product_variants(product_id), by way of execute_query: connect first
\* if there is no live connection, then run the query
get_product_variants(self, mysql, product_id) ==
    query_variants(IF self.connection = "None" \/ ~is_connected(self, mysql)
                   THEN connect(self, mysql)
                   ELSE [self |-> self, err |-> "none"],
                   mysql, product_id)

\* the dict extract_sku_data makes of one variant row; the title is kept as
\* its two parts, which the code joins with " - " and strips
sku_info(product, product_id, variant) ==
    [sku |-> get(variant, "sku"),
     product_id |-> product_id,
     variant_id |-> get(variant, "variant_id"),
     title |-> <<get(product, "title"), get(variant, "variant_title")>>,
     category |-> get(product, "category"),
     image_url |-> get(variant, "image_url"),
     price |-> get(variant, "price"),
     inventory |-> IF "inventory_quantity" \in DOMAIN variant
                   THEN variant.inventory_quantity ELSE 0,
     weight |-> get(variant, "weight"),
     barcode |-> get(variant, "barcode"),
     metadata |-> [product_title |-> get(product, "title"),
                   variant_title |-> get(variant, "variant_title"),
                   description |-> get(product, "description")]]

\* the loop of extract_sku_data over the variants the query returned
RECURSIVE sku_data_of(_, _, _)
sku_data_of(product, product_id, variants) ==
    IF variants = <<>> THEN <<>>
    ELSE (IF Falsy(get(Head(variants), "sku")) THEN <<>>
          ELSE <<sku_info(product, product_id, Head(variants))>>)
         \o sku_data_of(product, product_id, Tail(variants))

\* the end of extract_sku_data, found being what get_product_variants did
extracted(product, found) ==
    [self |-> found.self, err |-> found.err,
     sku_data |-> IF found.err # "none" THEN <<>>
                  ELSE sku_data_of(product, get(product, "product_id"), found.rows)]

\* extract_sku_data(product)
extract_sku_data(self, mysql, product) ==
    extracted(product, get_product_variants(self, mysql, get(product, "product_id")))

\* a row of product_variants as a dictionary cursor returns it
VariantRow(variant_id, product_id, sku, price) ==
    [variant_id |-> variant_id, product_id |-> product_id, sku |-> sku,
     variant_title |-> "Variant", price |-> price, inventory_quantity |-> 1,
     weight |-> 1, barcode |-> "None", image_url |-> "https://example.com/image.jpg"]

\* the tables of the servers: without rows, with the one variant of product
\* 1, with other variants for it and a row without a sku
VariantTables ==
    {<<>>,
     << VariantRow(1, 1, "SKU-001", 9999) >>,
     << VariantRow(1, 1, "SKU-001", 9999), VariantRow(2, 2, "SKU-009", 100),
        VariantRow(3, 1, "", 500), VariantRow(4, 1, "SKU-002", 700) >>}

\* the products handed to extract_sku_data: the one of the test, one with
\* two variants of which one has no sku, one without a variants list
Products ==
    {[product_id |-> 1, title |-> "Test Product", category |-> "FURNITURE",
      variants |-> << [id |-> 1, sku |-> "SKU-001", title |-> "Variant 1",
                       price |-> 9999,
                       image_url |-> "https://example.com/image.jpg"] >>],
     [product_id |-> 1, title |-> "Test Product", category |-> "FURNITURE",
      variants |-> << [id |-> 1, sku |-> "SKU-001", title |-> "Variant 1",
                       price |-> 9999],
                      [id |-> 3, sku |-> "", title |-> "Variant 3", price |-> 500],
                      [id |-> 4, sku |-> "SKU-002", title |-> "Variant 4",
                       price |-> 700] >>],
     [product_id |-> 2, title |-> "Lamp", category |-> "DECOR"]}

\* MySQLClient(...): no connection is made yet
InitClient ==
    /\ \E table \in VariantTables, reachable \in BOOLEAN :
          client = [self |-> [connection |-> "None"],
                    mysql |-> [reachable |-> reachable, product_variants |-> table],
                    call |-> [op |-> "__init__"], err |-> "none", ret |-> <<>>]
    /\ pipeline = NoPipeline
    /\ server = NoServer
    /\ augmenter = NoAugmenter
    /\ PipelineIdle

\* what the client leaves alone
clientRest == <<db, indexFile, metaFile, savePc, call, err, ret, saved, prev,
                nInserted, build, detector, pipeline, server, augmenter>>

\* the record of a call that ended as out and returned r
ClientCalled(c, out, r) ==
    [client EXCEPT !.self = out.self, !.call = c, !.err = out.err, !.ret = r]

ExtractSkuData ==
    /\ \E product \in Products :
          client' = ClientCalled(
                        [op |-> "extract_sku_data", product |-> product],
                        extract_sku_data(client.self, client.mysql, product),
                        extract_sku_data(client.self, client.mysql, product).sku_data)
    /\ UNCHANGED clientRest

GetProductVariants ==
    /\ \E product_id \in {1, 2} :
          client' = ClientCalled(
                        [op |-> "get_product_variants", product_id |-> product_id],
                        get_product_variants(client.self, client.mysql, product_id),
                        get_product_variants(client.self, client.mysql,
                                             product_id).rows)
    /\ UNCHANGED clientRest

\* disconnect(): a live connection is closed
Disconnect ==
    /\ client' = [client EXCEPT
                     !.self.connection = IF is_connected(client.self, client.mysql)
                                         THEN "closed" ELSE @,
                     !.call = [op |-> "disconnect"],
                     !.err = "none",
                     !.ret = <<>>]
    /\ UNCHANGED clientRest

\* the server goes away or comes back
ServerTurns ==
    /\ client' = [client EXCEPT !.mysql.reachable = ~@]
    /\ UNCHANGED clientRest

NextClient ==
    \/ ExtractSkuData
    \/ GetProductVariants
    \/ Disconnect
    \/ ServerTurns

SpecClient == InitClient /\ [][NextClient]_vars

----------------------------------------------------------------------------
(* Properties of VectorDatabase *)

\* what index.search reports for the query q of a search(q, k) on self
RawHits(self, q, k) ==
    index_search(self.index, PrepareQuery(self, q), Min(k, ntotal(self.index)))

NonIncreasing(sims) ==
    \A i \in 1..(Len(sims) - 1) : FracGeq(sims[i], sims[i + 1])

\* the two files hold exactly what a complete save of self writes
OnDisk(self) ==
    /\ FileEq(indexFile, CompleteFile(write_index(self.index)))
    /\ FileEq(metaFile, CompleteFile(pickle_dump(self)))

\* the index file and the metadata file tell of different indexes
Disagree(idx, md) ==
    \/ idx.d # md.dimension
    \/ ClassOf(idx.fourcc) # md.index_type
    \/ (idx.metric_type = 0) # (md.metric = "IP")
    \/ idx.ntotal # Len(md.metadata)

\* C1: in every reachable state the index holds as many vectors as the
\* metadata list has records (index.ntotal = len(metadata)).
C1_ParallelArrays == ntotal(db.index) = Len(db.metadata)

\* C2: on an index that ranks by L2 distance the score of a hit at distance
\* d is 1/(1+d), and of two hits of one query the nearer never has the
\* smaller score.
C2_L2ScoreIsCanonical ==
    \A q \in Queries, k \in Ks :
        (ntotal(db.index) > 0 /\ db.index.metric_type = "L2") =>
            LET sims == search(db, q, k).similarities
                D == RawHits(db, q, k).D
            IN  /\ \A i \in DOMAIN sims : FracEq(sims[i], Frac(One, One + D[i]))
                /\ \A i, j \in DOMAIN sims : D[i] < D[j] => FracGeq(sims[i], sims[j])

\* C3: for every index type and query the similarities search returns are
\* non-increasing by rank, and so is every row search_batch returns.
C3_SimilaritiesNonIncreasing ==
    /\ \A q \in Queries, k \in Ks : NonIncreasing(search(db, q, k).similarities)
    /\ \A qs \in QueryBatches, k \in Ks :
          \A i \in DOMAIN search_batch(db, qs, k).similarities :
              NonIncreasing(search_batch(db, qs, k).similarities[i])

\* C4: after N embeddings were inserted by add_embeddings calls, get_stats
\* reports total_embeddings = N and search(q, k) returns exactly min(k, N)
\* records without raising.
C4_SearchReturnsMinKN ==
    nInserted >= 0 =>
        /\ get_stats(db).total_embeddings = nInserted
        /\ \A q \in Queries, k \in Ks :
              /\ search(db, q, k).err = "none"
              /\ Len(search(db, q, k).results) = Min(k, nInserted)

\* C5: when a save is cut short while the two files held a persisted index,
\* the files hold either that complete old index or the complete new one.
C5_SaveAllOrNothing ==
    (call.op = "save" /\ err = "Interrupted" /\ prev.valid) =>
        (OnDisk(prev.db) \/ OnDisk(db))

\* C6: a load of what a save wrote restores the saved state: get_stats is
\* the same and every search returns the same records and similarities.
C6_SaveLoadRoundTrip ==
    (call.op = "load" /\ err = "none" /\ saved.valid) =>
        /\ get_stats(db) = get_stats(saved.db)
        /\ \A q \in Queries, k \in Ks : search(db, q, k) = search(saved.db, q, k)
        /\ \A qs \in QueryBatches, k \in Ks :
              search_batch(db, qs, k) = search_batch(saved.db, qs, k)

\* C6, its case: an index of two vectors was saved, and a fresh object of
\* another index type has loaded it.
C6_Witness ==
    /\ call.op = "load" /\ err = "none" /\ saved.valid
    /\ \E cfg \in Supported : call.self = VectorDatabase(cfg)
    /\ call.self.index_type # db.index_type
    /\ ntotal(db.index) >= 2

\* C7: load fails (with the schema-mismatch error), restoring nothing,
\* whenever the index file and the metadata file disagree on dimension, kind,
\* metric or number of entries.
C7_LoadRejectsMismatch ==
    (/\ call.op = "load"
     /\ indexFile.state = "complete" /\ metaFile.state = "complete"
     /\ Disagree(indexFile.data, metaFile.data)) =>
        (err # "none" /\ db = call.self)

\* C8: a load that fails leaves index, metadata and configuration as they
\* were before the load.
C8_FailedLoadRestoresNothing ==
    (call.op = "load" /\ err # "none") => db = call.self

\* C9: add_embeddings with len(embeddings) # len(metadata) raises ValueError
\* and leaves the object (index count, metadata, training state) unchanged.
C9_MismatchRejected ==
    [][(call'.op = "add_embeddings" /\ Len(call'.embeddings) # Len(call'.metadata))
          => (err' = "ValueError" /\ db' = db)]_vars

\* C9, its case: a mismatched batch was refused by an object that holds
\* entries.
C9_Witness ==
    /\ call.op = "add_embeddings"
    /\ Len(call.embeddings) # Len(call.metadata)
    /\ err = "ValueError"
    /\ ntotal(db.index) > 0

\* a well-formed batch for self: as many rows as records, rows of the
\* index's dimension
WellFormed(self, c) ==
    /\ Len(c.embeddings) = Len(c.metadata)
    /\ ~WrongDim(self.index, c.embeddings)

Untrained(self) == self.index.cls = "IndexIVFFlat" /\ ~self.index.is_trained

----------------------------------------------------------------------------
(* Properties of the training state *)

\* C11: a flat or HNSW index is trained from construction and an IVF index
\* is not; and once the index of an object is trained, no call on that
\* object (add_embeddings, search, search_batch, save, load, get_stats)
\* leaves it untrained.
C11_ReadyIsTerminal ==
    [][/\ (call'.op = "__init__" /\ err' = "none") =>
              (db'.index.is_trained <=> db'.index_type # "IndexIVFFlat")
       /\ (call'.op # "__init__" /\ db.index.is_trained) => db'.index.is_trained]_vars

\* self after a batch was appended to its index as the index stands, with no
\* training
Appended(self, c) ==
    [self EXCEPT !.index = index_add(self.index, c.embeddings),
                 !.metadata = @ \o c.metadata]

----------------------------------------------------------------------------
(* Properties of the builds *)

IsAugmented(m) == "augmented" \in DOMAIN m /\ m.augmented = TRUE

NoSourceFails == \A i \in 1..build.n : build.fails[i].kind = "none"

\* the positions of a list of records that p holds of
Where(records, p(_)) == {i \in DOMAIN records : p(records[i])}

\* C13: in each of the three builds, when no source fails, n sources with
\* augment_per_image = a give exactly n*(1+a) entries, in the index, in its
\* metadata and in the files saved: n without the augmented marker and n*a
\* with it.
C13_BuildCounts ==
    (build.pc = "done" /\ NoSourceFails) =>
        LET n == build.n
            a == build.augment_per_image
            IsOriginal(m) == ~IsAugmented(m)
        IN  /\ ntotal(db.index) = n * (1 + a)
            /\ Len(db.metadata) = n * (1 + a)
            /\ Cardinality(Where(db.metadata, IsOriginal)) = n
            /\ Cardinality(Where(db.metadata, IsAugmented)) = n * a
            /\ OnDisk(db)

\* C13, its case: a streaming build of one source per chunk, two sources and
\* two versions of each has ended with six entries.
C13_Witness ==
    /\ build.pc = "done" /\ NoSourceFails
    /\ build.strategy = "streaming" /\ build.chunk_size = 1
    /\ build.n = 2 /\ build.augment_per_image = 2
    /\ ntotal(db.index) = 6

\* the metadata an entry made from the image img must carry
MetadataOf(img) ==
    IF img.variant = 0 THEN SkuInfo(img.src)
    ELSE [sku |-> img.src,
          augmented |-> TRUE,
          aug_index |-> img.variant,
          aug_type |-> (img.variant - 1) % NumAugTypes]

\* C14: in every build and at every step of it, the entry of the augmented
\* version j of a source carries the source's record plus augmented = True,
\* aug_index = j+1, aug_type = j mod 5; the entry of an original carries the
\* source's record alone, without the marker; and the sku_info records of
\* the sources are as they were loaded.
C14_VariantsTagged ==
    /\ \A r \in DOMAIN db.metadata : db.metadata[r] = MetadataOf(build.origin[r])
    /\ \A r \in DOMAIN db.metadata :
          IsAugmented(db.metadata[r]) <=> build.origin[r].variant > 0
    /\ \A i \in 1..build.n : build.heap[i] = SkuInfo(i)
    /\ (build.strategy = "monolithic" /\ build.pc = "sources") =>
          \A i \in DOMAIN build.images :
              build.heap[build.metadata[i]] = MetadataOf(build.images[i])
    /\ (build.strategy = "parallel" /\ build.pc \in {"encode", "index"}) =>
          \A i \in DOMAIN build.images :
              build.metadata[i] = MetadataOf(build.images[i])

\* C14, its case: a build has ended whose index holds the sixth version of a
\* source, tagged with aug_index 6 and aug_type 0.
C14_Witness ==
    /\ build.pc = "done"
    /\ \E r \in DOMAIN db.metadata :
          /\ build.origin[r].variant = NumAugTypes + 1
          /\ db.metadata[r].aug_index = NumAugTypes + 1
          /\ db.metadata[r].aug_type = 0

\* C15: whatever sources fail to load, to be augmented or to be encoded, no
\* build is ended by an exception: it goes on to add, save and summarize.
C15_BuildNeverAborts == build.pc # "aborted"

\* C16: the index a build ends with holds no entry of a source that failed:
\* no original, no placeholder, no version of it.
C16_FailedSourceSkipped ==
    build.pc = "done" =>
        \A r \in DOMAIN build.origin : build.fails[build.origin[r].src].kind = "none"

\* the two lists hold the same records, each as many times
SameMultiset(s, t) ==
    \A x \in {s[i] : i \in DOMAIN s} \cup {t[i] : i \in DOMAIN t} :
        Cardinality({i \in DOMAIN s : s[i] = x}) = Cardinality({i \in DOMAIN t : t[i] = x})

\* what the monolithic build over the sources of this run encodes
MonolithicEntries ==
    LET acc == source_loop([heap |-> [i \in 1..build.n |-> SkuInfo(i)],
                            images |-> <<>>, metadata |-> <<>>],
                           1, build.n, build.augment_per_image, build.fails)
    IN  [images |-> acc.images, metadata |-> Deref(acc.heap, acc.metadata)]

\* C17: a streaming build that ended, of any chunk size and with any sources
\* failing to load, holds as many embeddings as the monolithic build over
\* the same sources and the same multiset of metadata records.
C17_StreamingMatchesMonolithic ==
    (/\ build.strategy = "streaming" /\ build.pc = "done"
     /\ \A i \in 1..build.n : build.fails[i].kind \in {"none", "load"}) =>
        /\ ntotal(db.index) = Len(MonolithicEntries.images)
        /\ SameMultiset(db.metadata, MonolithicEntries.metadata)

\* C18: a streaming build that is cut short after it added one chunk or more
\* leaves files that load restores on its own, to the entries of the chunks
\* added so far.
C18_ChunkFlushLoadable ==
    (build.strategy = "streaming" /\ build.pc = "killed" /\ build.chunks >= 1) =>
        LET out == load(VectorDatabase(BuildConfig), indexFile, metaFile)
        IN  /\ out.err = "none"
            /\ ntotal(out.self.index) = ntotal(db.index)
            /\ out.self.metadata = db.metadata

AllReturned == \A b \in DOMAIN build.batches : build.batches[b] = "returned"

----------------------------------------------------------------------------
(* Properties of the detector *)

\* C20: a detect on a detector whose model is not loaded, or whose
\* prediction raises, returns without raising exactly one detection: the box
\* [0, 0, width, height] of the image, with score 1.0 and the label
\* "product".
C20_FallbackIsWholeImage ==
    (/\ detector.call.op = "detect"
     /\ (detector.call.model = "None" \/ detector.call.predicted.kind = "raise")) =>
        /\ detector.err = "none"
        /\ detector.ret.boxes =
              << <<0, 0, detector.call.image.w, detector.call.image.h>> >>
        /\ Len(detector.ret.scores) = 1
        /\ FracEq(detector.ret.scores[1], Frac(1, 1))
        /\ detector.ret.labels = <<"product">>

\* C20, its case: a detector without a model was given a numpy array that
\* is wider than high, where a prediction would have found two boxes, and
\* has returned one.
C20_Witness ==
    /\ detector.call.op = "detect"
    /\ detector.call.model = "None"
    /\ detector.call.image.kind = "ndarray"
    /\ detector.call.image.w > detector.call.image.h
    /\ Len(detector.call.predicted.boxes) = 2
    /\ detector.err = "none"
    /\ Len(detector.ret.boxes) = 1

----------------------------------------------------------------------------
(* Properties of the recognition pipeline *)

\* the last call was process_image on a pipeline whose detector has a model,
\* and the prediction ran and returned
DetectorRan ==
    /\ pipeline.call.op = "process_image"
    /\ pipeline.self.detector.model = "loaded"
    /\ pipeline.call.predicted.kind = "boxes"

\* what the index answers for the embedding of the i-th region of the call
FoundFor(i) ==
    search(pipeline.self.vector_db, pipeline.call.embeddings[i], pipeline.self.top_k)

\* the answer has a match, and its first score reaches the threshold
Confident(found) ==
    /\ Len(found.results) > 0
    /\ FracGeq(found.similarities[1], pipeline.self.confidence_threshold)

\* C21: when the detector ran and found no box, process_image returns one
\* result for the whole image if the best similarity of the whole image
\* reaches the threshold, and none otherwise.
C21_NoBoxMeansWholeImage ==
    (DetectorRan /\ pipeline.call.predicted.boxes = <<>>) =>
        /\ pipeline.err = "none"
        /\ Len(pipeline.ret.results) = (IF Confident(FoundFor(1)) THEN 1 ELSE 0)
        /\ \A r \in DOMAIN pipeline.ret.results :
              pipeline.ret.results[r].box =
                  <<0, 0, pipeline.call.image.w, pipeline.call.image.h>>

\* the regions of the last process_image call and their crops
RegionsOf(c) == detect_products(pipeline.self, c.image, c.text_prompt, c.predicted)
CropsOf(c) == crop_detections(c.image, RegionsOf(c).boxes)
BigEnough(crop) == crop.h >= MinCropSide /\ crop.w >= MinCropSide

\* the results of the last call that were made of the i-th region
ResultsOf(i) ==
    {r \in DOMAIN pipeline.ret.results :
        pipeline.ret.results[r].detection_id = i - 1}

\* C22: of every region whose crop is at least 10 x 10, process_image
\* returns a result exactly if search found a match and the first
\* similarity reaches the threshold; the top_matches of a result are all the
\* matches search returned for the region, in their order; regions with a
\* smaller crop have no result, and results come in the order of the regions.
C22_EmitIffConfident ==
    (pipeline.call.op = "process_image" /\ pipeline.err = "none") =>
        LET results == pipeline.ret.results
            crops == CropsOf(pipeline.call)
        IN  /\ \A i \in DOMAIN crops :
                  /\ Cardinality(ResultsOf(i)) =
                        (IF BigEnough(crops[i]) /\ Confident(FoundFor(i))
                         THEN 1 ELSE 0)
                  /\ \A r \in ResultsOf(i) :
                        /\ Len(results[r].top_matches) = Len(FoundFor(i).results)
                        /\ \A m \in DOMAIN results[r].top_matches :
                              results[r].top_matches[m].metadata =
                                  FoundFor(i).results[m]
            /\ \A r \in DOMAIN results :
                  /\ results[r].detection_id + 1 \in DOMAIN crops
                  /\ \A q \in DOMAIN results :
                        r < q => results[r].detection_id < results[q].detection_id

\* C22 (witness): a call returned a result for one region and none for
\* another region of sufficient size, and the result carries a match whose
\* similarity is below the threshold.
C22_Witness ==
    /\ pipeline.call.op = "process_image"
    /\ pipeline.err = "none"
    /\ \E r \in DOMAIN pipeline.ret.results :
          \E m \in DOMAIN pipeline.ret.results[r].top_matches :
             ~FracGeq(pipeline.ret.results[r].top_matches[m].similarity,
                      pipeline.self.confidence_threshold)
    /\ \E i \in DOMAIN CropsOf(pipeline.call) :
          /\ BigEnough(CropsOf(pipeline.call)[i])
          /\ ResultsOf(i) = {}
          /\ Len(FoundFor(i).results) > 0

\* C23: a process_image call on a pipeline whose database was never loaded,
\* or whose detector's prediction raises, raises an exception.
C23_InfrastructureFailureRaises ==
    (/\ pipeline.call.op = "process_image"
     /\ \/ ~pipeline.self.loaded
        \/ /\ pipeline.self.detector.model = "loaded"
           /\ pipeline.call.predicted.kind = "raise")
    => pipeline.err # "none"

----------------------------------------------------------------------------
(* Properties of the API server *)

\* process_image evaluated with the top_k and the confidence_threshold of a
\* request in place of the pipeline's own
process_image_with(self, image, top_k, confidence_threshold, predicted, embeddings) ==
    process_image([self EXCEPT !.top_k = top_k,
                               !.confidence_threshold = confidence_threshold],
                  image, "None", predicted, embeddings)

\* the last request was an upload of a valid image to a server whose
\* pipeline is made and has loaded its database
ValidUploadToLoadedServer ==
    /\ server.call.op = "recognize_upload"
    /\ server.state.pipeline.pc # "None"
    /\ server.state.pipeline.loaded
    /\ IsImageType(server.call.file.content_type)
    /\ server.call.file.image.kind # "None"
    /\ validate_image(server.call.file.image) = "none"

\* C24: an upload of a valid image with top_k and confidence_threshold, to a
\* server whose pipeline and index are loaded, is answered with success and
\* with one match for every result process_image yields under those two
\* values.
C24_OverridesApplied ==
    ValidUploadToLoadedServer =>
        /\ server.ret.kind = "response"
        /\ server.ret.success
        /\ Len(server.ret.matches) =
              Len(process_image_with(server.state.pipeline,
                                     server.call.file.image,
                                     server.call.top_k,
                                     server.call.confidence_threshold,
                                     server.call.predicted,
                                     server.call.embeddings).results)

\* C30: the statistics served satisfy total_requests = successful_requests
\* + failed_requests after any sequence of completed recognize requests.
C30_StatsAddUp ==
    api_get_stats(server.state).total_requests =
        api_get_stats(server.state).successful_requests
        + api_get_stats(server.state).failed_requests

----------------------------------------------------------------------------
(* Properties of the augmenters *)

\* C25: generate_augmentations(image, num_augmentations = n) returns exactly
\* n pairs, the i-th named '<type>_<i>' for one of the augmentation types,
\* i running from 1 to n, and none of them is the original image.
C25_ExactlyNAugmentations ==
    augmenter.call.op = "generate_augmentations" =>
        /\ Len(augmenter.ret) = augmenter.call.num_augmentations
        /\ \A i \in DOMAIN augmenter.ret :
              /\ \E t \in UtilsAugmentationTypes \cup TopAugmentationTypes :
                    augmenter.ret[i][2] = t \o "_" \o ToString(i)
              /\ augmenter.ret[i][1] # augmenter.call.image

----------------------------------------------------------------------------
(* Properties of the MySQL client *)

\* the variants listed in a product that have a sku, in their order
ListedWithSku(product) ==
    IF "variants" \in DOMAIN product
    THEN SelectSeq(product.variants, LAMBDA v : ~Falsy(get(v, "sku")))
    ELSE <<>>

\* C26: extract_sku_data(product) returns one record for every variant
\* listed in the product that has a non-empty sku, in the order of the
\* list, with that variant's sku and price and the product's category.
C26_OneRecordPerListedVariant ==
    client.call.op = "extract_sku_data" =>
        /\ client.err = "none"
        /\ Len(client.ret) = Len(ListedWithSku(client.call.product))
        /\ \A i \in DOMAIN client.ret :
              /\ client.ret[i].sku = ListedWithSku(client.call.product)[i].sku
              /\ client.ret[i].price = ListedWithSku(client.call.product)[i].price
              /\ client.ret[i].category = client.call.product.category

----------------------------------------------------------------------------
(* Properties of the parallel build and of the summaries *)

\* position r of the index holds the embedding of the image that the record
\* at position r of the metadata was made with
AlignedWithImages ==
    /\ Len(build.origin) = Len(db.metadata)
    /\ Len(build.origin) = ntotal(db.index)
    /\ \A r \in DOMAIN build.origin :
          /\ db.index.xb[r] = Embedding(build.origin[r])
          /\ db.metadata[r] = MetadataOf(build.origin[r])

\* the entries of one source follow one another: the original, then the
\* versions 1, 2, ... in this order
SourcesContiguous ==
    \A r \in DOMAIN build.origin :
        IF r > 1 /\ build.origin[r - 1].src = build.origin[r].src
        THEN build.origin[r].variant = build.origin[r - 1].variant + 1
        ELSE /\ build.origin[r].variant = 0
             /\ \A s \in 1..(r - 1) : build.origin[s].src # build.origin[r].src

\* C27: a parallel build that ended, in whatever order its tasks returned,
\* holds at every position the record made with the image embedded there,
\* keeps the entries of a source together in the order original, version
\* 1..a, and holds the same multiset of records as the monolithic build over
\* the same sources.
C27_ParallelMatchesMonolithic ==
    (build.strategy = "parallel" /\ build.pc = "done") =>
        /\ AlignedWithImages
        /\ SourcesContiguous
        /\ SameMultiset(db.metadata, MonolithicEntries.metadata)


\* the rows of results and of scores are of one length, and at each rank the
\* record is the one at the position the index reported for that rank and
\* the score is the one made of the value reported for that rank
AlignedRow(self, results, similarities, found) ==
    /\ Len(results) = Len(similarities)
    /\ \A r \in DOMAIN results :
          /\ found.I[r] >= 0 /\ found.I[r] < Len(self.metadata)
          /\ results[r] = self.metadata[found.I[r] + 1]
          /\ similarities[r] = Similarity(self, found.D[r])

\* what the index reported to the search that just returned, for the query q
Reply(self, q, k) ==
    index_search(self.index, PrepareQuery(self, q), Min(k, ntotal(self.index)))

\* C28: the records and the scores a search returns, and those of every row
\* of a search_batch, are as many and go together rank by rank, also when
\* the index reported the label -1 or a position outside the metadata for
\* some rank.
C28_ResultsAlignedWithScores ==
    /\ (call.op = "search" /\ err = "none" /\ ~ret.none) =>
          AlignedRow(db, ret.results, ret.similarities, Reply(db, call.query, call.k))
    /\ (call.op = "search_batch" /\ err = "none" /\ ntotal(db.index) > 0) =>
          \A i \in DOMAIN ret.all_results :
              AlignedRow(db, ret.all_results[i], ret.similarities[i],
                         Reply(db, call.queries[i], call.k))


\* C29: when a build has ended, the 'Original' line of its summary is the
\* number of entries of the index without the augmented marker, the
\* 'Augmented' line the number of those with it, and the two add up to the
\* total the summary reports, also when sources failed and were skipped.
C29_SummaryCountsEntries ==
    build.pc = "done" =>
        LET IsOriginal(m) == ~IsAugmented(m)
        IN  /\ build.summary.logged
            /\ build.summary.original = Cardinality(Where(db.metadata, IsOriginal))
            /\ build.summary.augmented = Cardinality(Where(db.metadata, IsAugmented))
            /\ build.summary.original + build.summary.augmented = build.summary.total
            /\ build.summary.total = ntotal(db.index)

====
